---- MODULE Spec2Model ----
(***************************************************************************)
(* Job assignment and task execution of the arctia colony simulation:      *)
(* Penguin._look_for_job / Penguin.update (arctia.py), the Task classes    *)
(* (task.py), the Stage entity registry (stage.py) and the reservation     *)
(* ledger (Team).                                                          *)
(*                                                                         *)
(* One step of the model is one call of Penguin.update(); the penguins are *)
(* updated in list order, one tick being one pass over the list.           *)
(*                                                                         *)
(* An uncaught Python exception (a failed assert, an AttributeError) ends  *)
(* the program: the model records it in `crashed`, keeps the assignments   *)
(* made before the raise, and takes no further step.                       *)
(*                                                                         *)
(* arctia.py passes the Task constructors keyword arguments that task.py   *)
(* does not declare (delay, not_found_proc, TaskDrop's blocked_proc, the   *)
(* entity of TaskDrop/TaskTrade).  The model binds the arguments by role   *)
(* (unit, entity, continuation), takes the behaviour of every enact() from *)
(* task.py, and never invokes a continuation that no line of task.py       *)
(* invokes.                                                                *)
(***************************************************************************)
EXTENDS Integers, Sequences, FiniteSets, TLC

\* ------------------------------------------------------------- bounds
Width == 3
Height == 3

\* ---------------------------------------------------------- constants
\* TaskMine._work_left (task.py:94)
WORK == 10
\* the tile id TaskMine writes (task.py:111): open floor
FLOOR == 1
\* the tile id a mining job may be designated on (arctia.py:544)
ICE == 2

Cells == (0 .. Width - 1) \X (0 .. Height - 1)

Penguins == {1, 2}
Fishes == {"f1", "f2", "f3"}
Rocks == {"r1"}
Entities == Fishes \cup Rocks
\* the entities of every map but the crowded one, which has fish f3 as well
Usual == Entities \ {"f3"}
JobIds == {"j1", "j2"}

NoEntity == "none"
NoLoc == <<-1, -1>>
NoJob == "none"

\* Entity.kind
kind(e) == IF e \in Fishes THEN "fish" ELSE "rock"

\* common.tile_is_solid: get_tile_at gives None off the map (never solid
\* ground to stand on, never stepped to: treated as solid here)
tile_is_solid(tid) == tid # FLOOR

\* Stage.get_tile_at
get_tile_at(data, c) == IF c \in Cells THEN data[c] ELSE 0

\* the neighbour expansion order (jobsearch.py _offsets; spec 4.3)
Offsets == << <<0, -1>>, <<0, 1>>, <<-1, 0>>, <<1, 0>>,
              <<-1, -1>>, <<-1, 1>>, <<1, -1>>, <<1, 1>> >>

Plus(c, o) == <<c[1] + o[1], c[2] + o[2]>>

Neighbours(c) == {Plus(c, Offsets[i]) : i \in 1 .. 8} \cap Cells

\* ---------------------------------------------------------- partition
\* The cells a unit at `from` can reach by 8-directional steps over
\* non-solid tiles, and the solid tiles bordering them (a mining target is
\* solid and must be "reachable" for Go and for the job scan).
RECURSIVE Flood(_, _)
Flood(data, seen) ==
    LET more == UNION {Neighbours(c) : c \in {d \in seen : ~tile_is_solid(data[d])}}
    IN IF more \subseteq seen THEN seen ELSE Flood(data, seen \cup more)

partition(data, from) == Flood(data, {from})

\* ------------------------------------------------------------- astar
\* Distance (in steps) of every cell to `goal`; a step never enters a solid
\* cell other than the goal.  Cells without a path get Width * Height.
Far == Width * Height

RECURSIVE DistLevels(_, _, _, _, _)
DistLevels(data, frontier, seen, k, acc) ==
    IF frontier = {} THEN acc
    ELSE LET nxt == {c \in (UNION {Neighbours(f) : f \in frontier}) \ seen :
                        ~tile_is_solid(data[c])}
         IN DistLevels(data, nxt, seen \cup nxt, k + 1,
                       [c \in Cells |-> IF c \in frontier THEN k ELSE acc[c]])

Dist(data, goal) ==
    DistLevels(data, {goal}, {goal}, 0, [c \in Cells |-> Far])

RECURSIVE Walk(_, _, _)
Walk(dist, at, goal) ==
    IF at = goal \/ dist[at] >= Far THEN <<>>
    ELSE LET ok(i) == /\ Plus(at, Offsets[i]) \in Cells
                      /\ dist[Plus(at, Offsets[i])] = dist[at] - 1
             first == CHOOSE i \in 1 .. 8 :
                          ok(i) /\ \A j \in 1 .. (i - 1) : ~ok(j)
         IN <<Plus(at, Offsets[first])>> \o Walk(dist, Plus(at, Offsets[first]), goal)

\* astar(stage, start, goal): the cells of a shortest path, start excluded,
\* goal included; ties broken by the fixed neighbour order.
astar(data, start, goal) == Walk(Dist(data, goal), start, goal)

\* the only element of a one-element set
One(S) == CHOOSE r \in S : TRUE

\* MineJob.locations[0]
JobLoc(j) == IF j = "j1" THEN <<2, 0>> ELSE <<2, 1>>

\* --------------------------------------------------------- JobSearch
\* JobSearch._offsets and JobSearch._directions (the class constants LEFT = 0,
\* UPLEFT = 1, UPRIGHT = 2, RIGHT = 3, UP = 4, DOWN = 5, DOWNLEFT = 6,
\* DOWNRIGHT = 7), index by index
SearchOffsets ==
    << <<0, -1>>, <<0, 1>>, <<-1, 0>>, <<1, 0>>,
       <<-1, -1>>, <<-1, 1>>, <<1, -1>>, <<1, 1>> >>

Directions == <<4, 5, 0, 3, 1, 6, 2, 7>>

NoDirection == -1

\* what run() returns: (job, path), or None as the job "none"
NoResult == [job |-> NoJob, path |-> <<>>]

\* JobSearch.__init__
NewJobSearch ==
    [busy |-> FALSE, visited |-> {}, staleness |-> {},
     paths |-> [c \in Cells |-> NoDirection], shortest_path |-> <<>>,
     start |-> NoLoc]

\* JobSearch.start(from_x, from_y)
start_search(js, from) ==
    [js EXCEPT !.shortest_path = <<>>, !.start = from,
               !.visited = {from}, !.staleness = {},
               !.paths = [c \in Cells |-> NoDirection],
               !.busy = TRUE]

\* JobSearch.notify that inserts (xoff, yoff) as it is
notify_unnegated(js, off) ==
    IF ~js.busy THEN js
    ELSE [js EXCEPT !.shortest_path = <<off>> \o @]

\* JobSearch.notify(xoff, yoff)
notify(js, off) ==
    IF ~js.busy THEN js
    ELSE [js EXCEPT !.shortest_path = << <<-off[1], -off[2]>> >> \o @]

\* the steps from the start cell to cell c, read backwards from _paths
RECURSIVE path_suffix(_, _, _)
path_suffix(js, c, suffix) ==
    IF js.paths[c] = NoDirection THEN suffix
    ELSE One({ path_suffix(js, <<c[1] - off[1], c[2] - off[2]>>, <<off>> \o suffix)
               : off \in {SearchOffsets[CHOOSE i \in 1 .. 8 :
                                          Directions[i] = js.paths[c]]} })

\* JobSearch._traceback(job)
traceback(w, js, j) == js.shortest_path \o path_suffix(js, w.loc[j], <<>>)

\* the loop over self._mine_jobs taking reserved jobs too
job_found_at_reserved(w, c) ==
    One({ IF hits = <<>> THEN NoJob ELSE Head(hits)
          : hits \in {SelectSeq(w.jobs, LAMBDA j : ~w.done[j] /\ w.loc[j] = c)} })

\* the loop over self._mine_jobs (jobsearch.py 189-196): the first job of the
\* list that is not reserved, not done and lies on cell c
job_found_at(w, c) ==
    One({ IF hits = <<>> THEN NoJob ELSE Head(hits)
          : hits \in {SelectSeq(w.jobs, LAMBDA j : /\ ~w.reserved[j]
                                                    /\ ~w.done[j]
                                                    /\ w.loc[j] = c)} })

\* What one part of a sweep did: the search object, exhausted_tiles and the
\* job it returned with.
Swept(js, exhausted, found) == [js |-> js, exhausted |-> exhausted, found |-> found]

\* the loop over self._offsets for the cell c (jobsearch.py 176-198), from
\* index i on
RECURSIVE expand(_, _, _, _, _)
expand(w, js, c, i, exhausted) ==
    IF i > 8 THEN Swept([js EXCEPT !.staleness = @ \cup {c}], exhausted, NoJob)
    ELSE One({ IF o \notin Cells \/ o \in js.visited
               THEN expand(w, js, c, i + 1, exhausted)
               ELSE One({ IF hit # NoJob
                          THEN Swept([js1 EXCEPT !.busy = FALSE], FALSE, hit)
                          ELSE expand(w, js1, c, i + 1, FALSE)
                          : js1 \in {[js EXCEPT !.visited = @ \cup {o},
                                                !.paths[o] = Directions[i]]},
                            hit \in {job_found_at(w, o)} })
               : o \in {Plus(c, SearchOffsets[i])} })

\* the loops over y and x (jobsearch.py 168-198), from the k-th cell on
RECURSIVE sweep(_, _, _, _)
sweep(w, js, k, exhausted) ==
    IF k >= Width * Height THEN Swept(js, exhausted, NoJob)
    ELSE One({ IF /\ c \in js.visited
                  /\ c \notin js.staleness
                  /\ ~tile_is_solid(get_tile_at(w.data, c))
               THEN One({ IF r.found # NoJob THEN r
                          ELSE sweep(w, r.js, k + 1, r.exhausted)
                          : r \in {expand(w, js, c, 1, exhausted)} })
               ELSE sweep(w, js, k + 1, exhausted)
               : c \in {<<k % Width, k \div Width>>} })

\* the while loop of run (jobsearch.py 165-205)
RECURSIVE run_loop(_, _, _, _)
run_loop(w, js, exhausted, limit) ==
    IF exhausted \/ limit <= 0
    THEN [js |-> IF exhausted THEN [js EXCEPT !.busy = FALSE] ELSE js,
          result |-> NoResult]
    ELSE One({ IF r.found # NoJob
               THEN [js |-> r.js,
                     result |-> [job |-> r.found, path |-> traceback(w, r.js, r.found)]]
               ELSE run_loop(w, r.js, r.exhausted, limit - 1)
               : r \in {sweep(w, js, 0, TRUE)} })

\* JobSearch.run that gives up when its limit is used up
run_giving_up(w, js, limit, in_timeslice) ==
    IF ~in_timeslice THEN [js |-> js, result |-> NoResult]
    ELSE One({ [r EXCEPT !.js.busy = FALSE]
               : r \in {run_loop(w, js, FALSE, limit)} })

\* JobSearch.run that leaves busy set when the tiles are exhausted
run_staying_busy(w, js, limit, in_timeslice) ==
    IF ~in_timeslice THEN [js |-> js, result |-> NoResult]
    ELSE One({ IF r.result.job = NoJob THEN [r EXCEPT !.js.busy = TRUE] ELSE r
               : r \in {run_loop(w, js, FALSE, limit)} })

\* JobSearch.run that works in every timeslice
run_in_any_timeslice(w, js, limit, in_timeslice) ==
    run_loop(w, js, FALSE, limit)

\* JobSearch.run(limit, ignore_timeslice); in_timeslice says whether the
\* stopwatch test of lines 160-163 lets the call through
run(w, js, limit, in_timeslice) ==
    IF ~in_timeslice THEN [js |-> js, result |-> NoResult]
    ELSE run_loop(w, js, FALSE, limit)

\* a limit no search on the grid uses up: every sweep but the last visits a
\* cell
Unbounded == Width * Height + 1

\* the number of timeslices the job searches are spread over
NUM_OF_TIMESLICES == 3

\* the test of run() on the stopwatch: the ticks measured since the search was
\* constructed fall into its timeslice
InTimeslice(stopwatch, timeslice) == stopwatch % NUM_OF_TIMESLICES = timeslice

\* no search started: the JobSearch as constructed with timeslice 0 and the
\* stopwatch at 0, its owner nowhere, the jobs where the Mine jobs of the main
\* loop are
NoSearch ==
    [js |-> NewJobSearch, started |-> FALSE, origin |-> NoLoc, at |-> NoLoc,
     moves |-> 0, runs |-> 0, result |-> NoResult,
     loc |-> [j \in JobIds |-> JobLoc(j)],
     timeslice |-> 0, stopwatch |-> 0]

\* ------------------------------------------------------------- state
VARIABLES
    data,           \* Stage.data: the tile id of every cell
    entity_matrix,  \* Stage.entity_matrix: the entity lying on every cell
    entity_list,    \* Stage.entity_list: the (entity, cell) pairs on stage
    location,       \* Entity.location of every entity
    pos,            \* (Penguin.x, Penguin.y)
    held,           \* Penguin._held_entity
    task,           \* Penguin.task
    jobs,           \* the global list of jobs
    done,           \* MineJob.done
    stockpiles,     \* the global list of stockpiles
    team,           \* the reservation ledger (Team)
    crashed,        \* "none", or the uncaught exception that ended the program
    turn,           \* 0: frame bookkeeping is next; p: penguin p is updated next
    made,           \* history: the keys each penguin reserved, not relinquished since
    max_fires,      \* history: most continuation calls made by one task instance
    enacted_consumed, \* history: enact() ran on a task whose continuation had fired
    history,        \* history: the task kinds each penguin's current plan built
    outcome,        \* history: how each penguin's last plan ended
    plan,           \* history: the job, entity and slot of each penguin's last plan
    tick_eligible,  \* history: every idle penguin's eligible Mine jobs at tick start, in list order
    last_op,        \* history: the last successful ledger call on every (category, key)
    last_call,      \* history: the last ledger call, its result and the ledger before it
    tile_changes,   \* history: how many tiles have been made solid from outside
    searched_again, \* history: a TaskGoToAnyMatchingSpot.enact has run _recalculate
    search,         \* a JobSearch, its owner's position and what run() returned last
    clock           \* history: the ticks begun since a timed scenario started

vars == <<data, entity_matrix, entity_list, location, pos, held, task, jobs,
          done, stockpiles, team, crashed, turn, made, max_fires,
          enacted_consumed, history, outcome, plan, tick_eligible, last_op,
          last_call, tile_changes, searched_again, search, clock>>

NoArgs == [job |-> NoJob, stock |-> 0, entity |-> NoEntity, chosen_slot |-> NoLoc]

\* Penguin.task = None
NoTask == [kind |-> "None", target |-> NoLoc, target_is_solid |-> FALSE,
           has_target_is_solid |-> FALSE, path |-> <<>>, has_path |-> FALSE,
           path_is_none |-> FALSE, work_left |-> 0, entity |-> NoEntity,
           finished_proc |-> "", blocked_proc |-> "", impossible_proc |-> "",
           args |-> NoArgs, fires |-> 0]

Raise(s, what) == IF s.crashed = "none" THEN [s EXCEPT !.crashed = what] ELSE s

Running(s) == s.crashed = "none"

RaiseAfter(s, what) == IF what = "none" THEN s ELSE Raise(s, what)

\* ------------------------------------------------------------- Stage
\* Stage.entity_at
entity_at(s, loc) == s.entity_matrix[loc]

\* Stage.add_entity without the assertion that the location is empty
add_entity_replacing(s, entity, loc) ==
    IF loc \notin Cells THEN Raise(s, "add_entity: off the stage")
    ELSE IF entity = NoEntity THEN Raise(s, "add_entity: no entity")
    ELSE [s EXCEPT !.location[entity] = loc,
                   !.entity_matrix[loc] = entity,
                   !.entity_list = @ \cup {<<entity, loc>>}]

\* Stage.add_entity
add_entity(s, entity, loc) ==
    IF loc \notin Cells THEN Raise(s, "add_entity: off the stage")
    ELSE IF s.entity_matrix[loc] # NoEntity
         THEN Raise(s, "add_entity: location is not empty")
    ELSE IF entity = NoEntity THEN Raise(s, "add_entity: no entity")
    ELSE [s EXCEPT !.location[entity] = loc,
                   !.entity_matrix[loc] = entity,
                   !.entity_list = @ \cup {<<entity, loc>>}]

\* Stage.delete_entity
delete_entity(s, entity) ==
    LET at == {c \in Cells : s.entity_matrix[c] = entity}
    IN IF \E c \in at : <<entity, c>> \notin s.entity_list
       THEN Raise(s, "delete_entity: not in entity_list")
       ELSE [s EXCEPT !.entity_matrix = [c \in Cells |-> IF c \in at THEN NoEntity ELSE @[c]],
                      !.entity_list = @ \ {<<entity, c>> : c \in at},
                      !.location[entity] = IF at = {} THEN @ ELSE NoLoc]

\* Stage.set_tile_at (the tile change listeners recompute the partitions,
\* which the model derives from data)
set_tile_at(s, c, tid) ==
    IF c \notin Cells THEN Raise(s, "set_tile_at: off the stage")
    ELSE [s EXCEPT !.data[c] = tid]

\* Stage.find_entity: random.shuffle, then the first entry the condition
\* accepts.  s.pick_entity is the entry the shuffle puts first among the
\* accepted ones.
find_entity(s, condition) ==
    LET accepted == {el \in s.entity_list : condition[el]}
    IN IF accepted = {} THEN <<>>
       ELSE IF \E el \in accepted : el[1] = s.pick_entity
            THEN CHOOSE el \in accepted : el[1] = s.pick_entity
            ELSE CHOOSE el \in accepted : TRUE

\* Penguin.partition
in_partition(s, p, c) == c \in partition(s.data, s.pos[p])

\* -------------------------------------------------------------- Team
Categories == {"mine", "location", "entity"}

\* Team.is_reserved
ledger_is_reserved(t, category, key) == key \in t[category]

\* Team.reserve: fails, changing nothing, on a key that is present
\* reserve that puts the key into every category
ledger_reserve_everywhere(t, category, key) ==
    IF key \in t[category] THEN [ok |-> FALSE, team |-> t]
    ELSE [ok |-> TRUE, team |-> [c \in DOMAIN t |-> t[c] \cup {key}]]

ledger_reserve(t, category, key) ==
    IF key \in t[category] THEN [ok |-> FALSE, team |-> t]
    ELSE [ok |-> TRUE, team |-> [t EXCEPT ![category] = @ \cup {key}]]

\* Team.relinquish: fails, changing nothing, on a key that is absent
\* relinquish that empties the category when the key is absent
ledger_relinquish_clearing(t, category, key) ==
    IF key \notin t[category]
    THEN [ok |-> FALSE, team |-> [t EXCEPT ![category] = {}]]
    ELSE [ok |-> TRUE, team |-> [t EXCEPT ![category] = @ \ {key}]]

ledger_relinquish(t, category, key) ==
    IF key \notin t[category] THEN [ok |-> FALSE, team |-> t]
    ELSE [ok |-> TRUE, team |-> [t EXCEPT ![category] = @ \ {key}]]

is_reserved(s, category, key) == ledger_is_reserved(s.team, category, key)

\* self._team.reserve(category, key) called by penguin p
reserve(s, p, category, key) ==
    LET r == ledger_reserve(s.team, category, key)
    IN IF ~Running(s) THEN s
       ELSE IF ~r.ok THEN Raise(s, "reserve: key is already reserved")
       ELSE [s EXCEPT !.team = r.team,
                      !.made[p] = @ \cup {<<category, key>>}]

\* self._team.relinquish(category, key) called by penguin p
relinquish(s, p, category, key) ==
    LET r == ledger_relinquish(s.team, category, key)
    IN IF ~Running(s) THEN s
       ELSE IF ~r.ok THEN Raise(s, "relinquish: key is not reserved")
       ELSE [s EXCEPT !.team = r.team,
                      !.made = [q \in Penguins |-> @[q] \ {<<category, key>>}]]

\* ------------------------------------------------------------- tasks
RECURSIVE CallProc(_, _, _, _)
RECURSIVE look_for_job(_, _)

\* A task calls one of its continuations: self._finished_proc(),
\* self._blocked_proc() or self._impossible_proc().
Invoke(s, p, t, which) ==
    CallProc([s EXCEPT !.max_fires = IF t.fires + 1 > @ THEN t.fires + 1 ELSE @],
             p,
             IF which = "finished" THEN t.finished_proc
             ELSE IF which = "blocked" THEN t.blocked_proc
             ELSE t.impossible_proc,
             t.args)

\* The constructed object becomes Penguin.task (self.task = Task...(...)),
\* unless the constructor raised.
Install(s, p, t) ==
    IF Running(s) THEN [s EXCEPT !.task[p] = t] ELSE s

Built(s, p, k) ==
    IF Len(s.history[p]) < 8 THEN [s EXCEPT !.history[p] = Append(@, k)] ELSE s

\* self.task = TaskGo(stage, unit, target, blocked_proc, finished_proc)
NewTaskGo(s0, p, target, blocked_proc, finished_proc, args) ==
    One({ IF ~Running(s) THEN s
          ELSE IF s.pos[p] = target
               THEN Install(Invoke(Built(s, p, "Go"), p, t, "finished"),
                            p, [t EXCEPT !.fires = 1])
          ELSE IF ~in_partition(s, p, target)
               THEN Raise(Built(s, p, "Go"), "TaskGo: destination tile is unreachable")
          ELSE Install(Built(s, p, "Go"), p,
                       [t EXCEPT !.path = astar(s.data, s.pos[p], target),
                                 !.has_path = TRUE])
          : s \in {s0},
            t \in {[NoTask EXCEPT !.kind = "Go", !.target = target,
                       !.target_is_solid = tile_is_solid(get_tile_at(s0.data, target)),
                       !.has_target_is_solid = TRUE,
                       !.blocked_proc = blocked_proc,
                       !.finished_proc = finished_proc, !.args = args]} })

\* What an enact() did: the state it left, the task object, the
\* continuations it called, in order, and the exception it raised after them.
Did(s, t, fire) == [s |-> s, t |-> t, fire |-> fire, after |-> "none"]

\* TaskGo.enact calling _finished_proc a second time on arrival
EnactGo_twice(s, p, t) ==
    IF ~in_partition(s, p, t.target) THEN Did(s, t, <<"blocked">>)
    ELSE IF ~t.has_path
         THEN Did(Raise(s, "TaskGo.enact: no attribute _path"), t, <<>>)
    ELSE IF Len(t.path) = 0 THEN Did(s, t, <<"finished", "finished">>)
    ELSE IF t.target_is_solid /\ Len(t.path) = 1
         THEN Did(s, t, <<"finished", "finished">>)
    ELSE IF ~tile_is_solid(get_tile_at(s.data, t.path[1]))
         THEN Did([s EXCEPT !.pos[p] = t.path[1], !.task[p].path = Tail(t.path)],
                  t, <<>>)
    ELSE Did([s EXCEPT !.task[p].path = astar(s.data, s.pos[p], t.target)], t, <<>>)

\* TaskGo.enact that takes the cached step whatever the tile has become
EnactGo_through(s, p, t) ==
    IF ~in_partition(s, p, t.target) THEN Did(s, t, <<"blocked">>)
    ELSE IF ~t.has_path
         THEN Did(Raise(s, "TaskGo.enact: no attribute _path"), t, <<>>)
    ELSE IF Len(t.path) = 0 THEN Did(s, t, <<"finished">>)
    ELSE IF t.target_is_solid /\ Len(t.path) = 1 THEN Did(s, t, <<"finished">>)
    ELSE Did([s EXCEPT !.pos[p] = t.path[1], !.task[p].path = Tail(t.path)], t, <<>>)

\* TaskGo.enact that waits when the target is unreachable, without calling
\* _blocked_proc
EnactGo_waiting(s, p, t) ==
    IF ~in_partition(s, p, t.target) THEN Did(s, t, <<>>)
    ELSE IF ~t.has_path
         THEN Did(Raise(s, "TaskGo.enact: no attribute _path"), t, <<>>)
    ELSE IF Len(t.path) = 0 THEN Did(s, t, <<"finished">>)
    ELSE IF t.target_is_solid /\ Len(t.path) = 1 THEN Did(s, t, <<"finished">>)
    ELSE IF ~tile_is_solid(get_tile_at(s.data, t.path[1]))
         THEN Did([s EXCEPT !.pos[p] = t.path[1], !.task[p].path = Tail(t.path)],
                  t, <<>>)
    ELSE Did([s EXCEPT !.task[p].path = astar(s.data, s.pos[p], t.target)], t, <<>>)

\* TaskGo.enact finishing two steps short of a solid target
EnactGo_early(s, p, t) ==
    IF ~in_partition(s, p, t.target) THEN Did(s, t, <<"blocked">>)
    ELSE IF ~t.has_path
         THEN Did(Raise(s, "TaskGo.enact: no attribute _path"), t, <<>>)
    ELSE IF Len(t.path) = 0 THEN Did(s, t, <<"finished">>)
    ELSE IF t.target_is_solid /\ Len(t.path) <= 2 THEN Did(s, t, <<"finished">>)
    ELSE IF t.path[1] \notin Neighbours(s.pos[p]) \cup {s.pos[p]}
         THEN Did(Raise(s, "TaskGo.enact: step is not a unit step"), t, <<>>)
    ELSE IF ~tile_is_solid(get_tile_at(s.data, t.path[1]))
         THEN Did([s EXCEPT !.pos[p] = t.path[1], !.task[p].path = Tail(t.path)],
                  t, <<>>)
    ELSE Did([s EXCEPT !.task[p].path = astar(s.data, s.pos[p], t.target)], t, <<>>)

\* TaskGo.enact
EnactGo(s, p, t) ==
    IF ~in_partition(s, p, t.target) THEN Did(s, t, <<"blocked">>)
    ELSE IF ~t.has_path
         THEN Did(Raise(s, "TaskGo.enact: no attribute _path"), t, <<>>)
    ELSE IF Len(t.path) = 0 THEN Did(s, t, <<"finished">>)
    ELSE IF t.target_is_solid /\ Len(t.path) = 1 THEN Did(s, t, <<"finished">>)
    ELSE IF t.path[1] \notin Neighbours(s.pos[p]) \cup {s.pos[p]}
         THEN Did(Raise(s, "TaskGo.enact: step is not a unit step"), t, <<>>)
    ELSE IF ~tile_is_solid(get_tile_at(s.data, t.path[1]))
         THEN Did([s EXCEPT !.pos[p] = t.path[1], !.task[p].path = Tail(t.path)],
                  t, <<>>)
    ELSE Did([s EXCEPT !.task[p].path = astar(s.data, s.pos[p], t.target)], t, <<>>)

\* TaskMine._assert_unit_is_within_range
unit_is_within_range(s, p, target) ==
    /\ s.pos[p][1] - target[1] \in -1 .. 1
    /\ s.pos[p][2] - target[2] \in -1 .. 1

\* TaskMine.__init__ with one unit of work less
NewTaskMine_rested(s, p, target, finished_proc, args) ==
    IF ~Running(s) THEN s
    ELSE IF ~unit_is_within_range(s, p, target)
         THEN Raise(Built(s, p, "Mine"), "TaskMine: not in range of mine job")
    ELSE Install(Built(s, p, "Mine"), p,
                 [NoTask EXCEPT !.kind = "Mine", !.target = target,
                     !.work_left = WORK - 1,
                     !.finished_proc = finished_proc, !.args = args])

\* self.task = TaskMine(stage, unit, target, finished_proc)
NewTaskMine(s, p, target, finished_proc, args) ==
    IF ~Running(s) THEN s
    ELSE IF ~unit_is_within_range(s, p, target)
         THEN Raise(Built(s, p, "Mine"), "TaskMine: not in range of mine job")
    ELSE Install(Built(s, p, "Mine"), p,
                 [NoTask EXCEPT !.kind = "Mine", !.target = target,
                     !.work_left = WORK,
                     !.finished_proc = finished_proc, !.args = args])

\* TaskMine.enact finishing whenever no work is left, not only on reaching 0
EnactMine_again(s, p, t) ==
    IF ~unit_is_within_range(s, p, t.target)
    THEN Did(Raise(s, "TaskMine: not in range of mine job"), t, <<>>)
    ELSE IF t.work_left - 1 <= 0
         THEN Did(set_tile_at([s EXCEPT !.task[p].work_left = t.work_left - 1],
                              t.target, FLOOR),
                  [t EXCEPT !.work_left = t.work_left - 1], <<"finished">>)
    ELSE Did([s EXCEPT !.task[p].work_left = t.work_left - 1], t, <<>>)

\* TaskMine.enact that finishes without setting the tile
EnactMine_undug(s, p, t) ==
    IF ~unit_is_within_range(s, p, t.target)
    THEN Did(Raise(s, "TaskMine: not in range of mine job"), t, <<>>)
    ELSE IF t.work_left - 1 = 0
         THEN Did([s EXCEPT !.task[p].work_left = 0],
                  [t EXCEPT !.work_left = 0], <<"finished">>)
    ELSE Did([s EXCEPT !.task[p].work_left = t.work_left - 1], t, <<>>)

\* TaskMine.enact
EnactMine(s, p, t) ==
    IF ~unit_is_within_range(s, p, t.target)
    THEN Did(Raise(s, "TaskMine: not in range of mine job"), t, <<>>)
    ELSE IF t.work_left - 1 = 0
         THEN Did(set_tile_at([s EXCEPT !.task[p].work_left = 0], t.target, FLOOR),
                  [t EXCEPT !.work_left = 0], <<"finished">>)
    ELSE Did([s EXCEPT !.task[p].work_left = t.work_left - 1], t, <<>>)

\* self.task = TaskTake(stage, unit, entity, finished_proc)
NewTaskTake(s, p, entity, finished_proc, args) ==
    IF ~Running(s) THEN s
    ELSE IF s.pos[p] # s.location[entity]
         THEN Raise(Built(s, p, "Take"), "TaskTake: unit is not at the entity")
    ELSE Install(Built(s, p, "Take"), p,
                 [NoTask EXCEPT !.kind = "Take", !.entity = entity,
                     !.finished_proc = finished_proc, !.args = args])

\* TaskTake.enact
EnactTake(s, p, t) ==
    IF s.held[p] # NoEntity
    THEN Did(Raise(s, "TaskTake: unit tried to take when its hands were full"),
             t, <<>>)
    ELSE Did(delete_entity([s EXCEPT !.held[p] = t.entity,
                                     !.location[t.entity] = NoLoc],
                           t.entity),
             t, <<"finished">>)

\* self.task = TaskDrop(stage, unit, finished_proc)
NewTaskDrop(s, p, blocked_proc, finished_proc, args) ==
    IF ~Running(s) THEN s
    ELSE Install(Built(s, p, "Drop"), p,
                 [NoTask EXCEPT !.kind = "Drop", !.entity = args.entity,
                     !.blocked_proc = blocked_proc,
                     !.finished_proc = finished_proc, !.args = args])

\* TaskDrop.enact that leaves the entity in the penguin's hands as well
EnactDrop_keeping(s, p, t) ==
    Did(add_entity(s, s.held[p], s.pos[p]), t, <<"finished">>)

\* TaskDrop.enact
EnactDrop(s, p, t) ==
    Did(add_entity([s EXCEPT !.held[p] = NoEntity], s.held[p], s.pos[p]),
        t, <<"finished">>)

\* self.task = TaskTrade(stage, unit, entity, finished_proc)
NewTaskTrade(s, p, entity, finished_proc, args) ==
    IF ~Running(s) THEN s
    ELSE Install(Built(s, p, "Trade"), p,
                 [NoTask EXCEPT !.kind = "Trade", !.entity = entity,
                     !.finished_proc = finished_proc, !.args = args])

\* TaskTrade.enact
EnactTrade(s, p, t) ==
    LET held_ == s.held[p]
        grounded == entity_at(s, s.pos[p])
    IN IF grounded = NoEntity
       THEN Did(Raise(s, "TaskTrade: nothing on the ground"), t, <<>>)
       ELSE IF s.location[grounded] # s.pos[p]
            THEN Did(Raise(s, "TaskTrade: unit is not at the grounded entity"), t, <<>>)
       ELSE IF held_ = NoEntity
            THEN Did(Raise(s, "TaskTrade: unit holds nothing"), t, <<>>)
       ELSE One({ Did(IF Running(s2) THEN [s2 EXCEPT !.held[p] = grounded] ELSE s2,
                      t, <<"finished">>)
                  : s2 \in {add_entity(
                               delete_entity([s EXCEPT !.location[grounded] = NoLoc],
                                             grounded),
                               held_, s.pos[p])} })

\* _location_is_empty (abort_dump_wherever)
location_is_empty(s, loc) == entity_at(s, loc) = NoEntity

\* breadth.find_path_to_matching with _location_is_empty: the cells of a
\* shortest path from `start` to a nearest walkable cell that is empty, or
\* <<NoLoc>> for None.  Which of several nearest cells is found is left
\* open (s.pick_cell); a start cell that matches is a path of itself.
find_path_to_matching(s, start) ==
    LET dist == Dist(s.data, start)
        cand == {c \in Cells : /\ ~tile_is_solid(s.data[c])
                               /\ dist[c] < Far
                               /\ location_is_empty(s, c)}
        near == {c \in cand : \A d \in cand : dist[c] <= dist[d]}
    IN IF cand = {} THEN <<NoLoc>>
       ELSE One({ IF goal = start THEN <<start>> ELSE astar(s.data, start, goal)
                  : goal \in {IF s.pick_cell \in near THEN s.pick_cell
                              ELSE CHOOSE c \in near : TRUE} })

\* TaskGoToAnyMatchingSpot._recalculate
recalculate(s, p, t) ==
    One({ IF path = <<NoLoc>>
          THEN Did(s, [t EXCEPT !.path_is_none = TRUE, !.has_path = TRUE],
                   <<"impossible">>)
          ELSE One({ IF ~in_partition(s, p, t1.target)
                     THEN Did(Raise(s, "TaskGoToAnyMatchingSpot: destination tile is unreachable"),
                              t1, <<>>)
                     ELSE IF s.pos[p] = t1.target THEN Did(s, t1, <<"finished">>)
                     ELSE Did(s, [t1 EXCEPT !.target_is_solid =
                                                tile_is_solid(get_tile_at(s.data, t1.target)),
                                            !.has_target_is_solid = TRUE], <<>>)
                     : t1 \in {[t EXCEPT !.path = path, !.path_is_none = FALSE,
                                         !.has_path = TRUE,
                                         !.target = path[Len(path)]]} })
          : path \in {find_path_to_matching(s, s.pos[p])} })

\* the continuations a task calls, one after the other
RECURSIVE InvokeAll(_, _, _, _)
InvokeAll(s, p, t, fire) ==
    IF fire = <<>> THEN s
    ELSE InvokeAll(Invoke(s, p, t, Head(fire)), p,
                   [t EXCEPT !.fires = @ + 1], Tail(fire))

\* self.task = TaskGoToAnyMatchingSpot(stage, unit, condition_func,
\*                                     impossible_proc, finished_proc)
NewTaskGoToAnyMatchingSpot(s, p, impossible_proc, finished_proc, args) ==
    IF ~Running(s) THEN s
    ELSE One({ IF ~Running(r.s) THEN r.s
               ELSE Install(InvokeAll(r.s, p, r.t, r.fire), p,
                            [r.t EXCEPT !.fires = Len(r.fire)])
               : r \in {recalculate(
                           Built(s, p, "GoToAnyMatchingSpot"), p,
                           [NoTask EXCEPT !.kind = "GoToAnyMatchingSpot",
                               !.impossible_proc = impossible_proc,
                               !.finished_proc = finished_proc,
                               !.args = args])} })

\* TaskGoToAnyMatchingSpot.enact, after the reachability check; `mine` says
\* that the object is still Penguin.task (no continuation replaced it)
travel(s, p, t, fire, mine) ==
    LET keep(sx, tx) == IF mine THEN [sx EXCEPT !.task[p] = tx] ELSE sx
    IN IF Len(t.path) = 0 THEN Did(keep(s, t), t, fire \o <<"finished">>)
       ELSE IF ~t.has_target_is_solid
            THEN [Did(keep(s, t), t, fire) EXCEPT
                    !.after = "TaskGoToAnyMatchingSpot.enact: no attribute _target_is_solid"]
       ELSE IF t.target_is_solid /\ Len(t.path) = 1
            THEN Did(keep(s, t), t, fire \o <<"finished">>)
       ELSE IF t.path[1] \notin Neighbours(s.pos[p]) \cup {s.pos[p]}
            THEN [Did(keep(s, t), t, fire) EXCEPT
                    !.after = "TaskGoToAnyMatchingSpot.enact: step is not a unit step"]
       ELSE IF ~tile_is_solid(get_tile_at(s.data, t.path[1]))
            THEN Did(keep([s EXCEPT !.pos[p] = t.path[1]],
                          [t EXCEPT !.path = Tail(t.path)]), t, fire)
       ELSE Did(keep(s, [t EXCEPT !.path = astar(s.data, s.pos[p], t.target)]),
                t, fire)

\* TaskGoToAnyMatchingSpot.enact that gives up when its target is unreachable
EnactGoToAnyMatchingSpot_failing(s, p, t) ==
    IF t.path_is_none
    THEN Did(Raise(s, "TaskGoToAnyMatchingSpot.enact: no attribute _target"), t, <<>>)
    ELSE IF in_partition(s, p, t.target) THEN travel(s, p, t, <<>>, TRUE)
    ELSE Did([s EXCEPT !.searched_again = TRUE], t, <<"impossible">>)

\* TaskGoToAnyMatchingSpot.enact
EnactGoToAnyMatchingSpot(s, p, t) ==
    IF t.path_is_none
    THEN Did(Raise(s, "TaskGoToAnyMatchingSpot.enact: no attribute _target"), t, <<>>)
    ELSE IF in_partition(s, p, t.target) THEN travel(s, p, t, <<>>, TRUE)
    ELSE One({ IF ~Running(r.s) \/ r.t.path_is_none THEN r
               ELSE travel(r.s, p, r.t, r.fire, r.fire = <<>>)
               : r \in {recalculate([s EXCEPT !.searched_again = TRUE], p, t)} })

\* the enact() of the task's class
EnactTask(s, p, t) ==
    IF t.kind = "Go" THEN EnactGo(s, p, t)
    ELSE IF t.kind = "Mine" THEN EnactMine(s, p, t)
    ELSE IF t.kind = "Take" THEN EnactTake(s, p, t)
    ELSE IF t.kind = "Drop" THEN EnactDrop(s, p, t)
    ELSE IF t.kind = "Trade" THEN EnactTrade(s, p, t)
    ELSE EnactGoToAnyMatchingSpot(s, p, t)

\* self.task.enact()
enact(s, p) ==
    One({ IF ~Running(r.s) THEN r.s
          ELSE RaiseAfter(InvokeAll(r.s, p, r.t, r.fire), r.after)
          : r \in {EnactTask(IF s.task[p].fires > 0
                             THEN [s EXCEPT !.enacted_consumed = TRUE] ELSE s,
                             p, s.task[p])} })

\* ------------------------------------------- Penguin._look_for_job
Ended(s, p, how) == [s EXCEPT !.outcome[p] = how]

Started(s, p, what, args) ==
    [s EXCEPT !.history[p] = <<>>, !.outcome[p] = "busy",
              !.plan[p] = [kind |-> what, args |-> args]]

\* _complete_mining without job.finish()
complete_mining_unfinished(s, p, args) ==
    One({ look_for_job(s1, p)
          : s1 \in {Ended([s EXCEPT !.task[p] = NoTask], p, "mined")} })

\* _complete_mining(job)
complete_mining(s, p, args) ==
    One({ look_for_job(s1, p)
          : s1 \in {Ended([s EXCEPT !.done[args.job] = TRUE, !.task[p] = NoTask],
                          p, "mined")} })

\* _forget_job(job)
forget_job(s, p, args) ==
    One({ IF ~Running(s1) THEN s1
          ELSE look_for_job(Ended([s1 EXCEPT !.task[p] = NoTask], p, "forgot"), p)
          : s1 \in {relinquish(s, p, "mine", args.job)} })

\* _start_mining(job)
start_mining(s, p, args) ==
    NewTaskMine(s, p, JobLoc(args.job), "complete_mining", args)

\* start_haul_job(stock, entity, chosen_slot)
start_haul_job(s, p, args) ==
    NewTaskGo(reserve(reserve(s, p, "location", args.chosen_slot),
                      p, "entity", args.entity),
              p, s.location[args.entity],
              "abort_entity_inaccessible", "pick_up_entity", args)

\* pick_up_entity(stock, entity, chosen_slot)
pick_up_entity(s, p, args) ==
    NewTaskTake(s, p, args.entity, "haul_entity_to_slot", args)

\* abort_entity_inaccessible(_unused_stock, entity, chosen_slot)
abort_entity_inaccessible(s, p, args) ==
    One({ IF ~Running(s2) THEN s2
          ELSE Ended([s2 EXCEPT !.task[p] = NoTask], p, "aborted")
          : s2 \in {relinquish(relinquish(s, p, "location", args.chosen_slot),
                               p, "entity", args.entity)} })

\* haul_entity_to_slot that keeps the entity reserved
haul_entity_to_slot_keeping(s, p, args) ==
    NewTaskGo(s, p, args.chosen_slot,
              "abort_dump_wherever", "put_entity_into_slot", args)

\* haul_entity_to_slot(stock, entity, chosen_slot)
haul_entity_to_slot(s, p, args) ==
    NewTaskGo(relinquish(s, p, "entity", args.entity), p, args.chosen_slot,
              "abort_dump_wherever", "put_entity_into_slot", args)

\* abort_dump_wherever that also releases the entity if it is reserved
abort_dump_wherever_releasing_entity(s, p, args) ==
    One({ NewTaskGoToAnyMatchingSpot(s2, p, "die_no_dump_location",
                                     "try_to_dump", args)
          : s2 \in {IF is_reserved(s1, "entity", args.entity)
                    THEN relinquish(s1, p, "entity", args.entity)
                    ELSE s1
                    : s1 \in {IF is_reserved(s, "location", args.chosen_slot)
                              THEN relinquish(s, p, "location", args.chosen_slot)
                              ELSE s}} })

\* abort_dump_wherever(stock, entity, chosen_slot)
abort_dump_wherever(s, p, args) ==
    One({ NewTaskGoToAnyMatchingSpot(s1, p, "die_no_dump_location",
                                     "try_to_dump", args)
          : s1 \in {IF is_reserved(s, "location", args.chosen_slot)
                    THEN relinquish(s, p, "location", args.chosen_slot)
                    ELSE s} })

\* try_to_dump(stock, entity, chosen_slot)
try_to_dump(s, p, args) ==
    NewTaskDrop(s, p, "abort_dump_wherever", "abort_no_cleanup_needed", args)

\* die_no_dump_location: assert False
die_no_dump_location(s, p, args) ==
    Raise(s, "error: no accessible dump location")

\* put_entity_into_slot(stock, entity, chosen_slot)
put_entity_into_slot(s, p, args) ==
    LET occupier == entity_at(s, args.chosen_slot)
    IN IF occupier # NoEntity
       THEN NewTaskTrade(s, p, occupier, "abort_dump_wherever",
                         [args EXCEPT !.entity = occupier])
       ELSE NewTaskDrop(s, p, "put_entity_into_slot",
                        "abort_and_relinquish_slot", args)

\* abort_no_cleanup_needed()
abort_no_cleanup_needed(s, p, args) ==
    Ended([s EXCEPT !.task[p] = NoTask], p, "dumped")

\* abort_and_relinquish_slot that keeps the slot reserved
abort_and_relinquish_slot_keeping(s, p, args) ==
    Ended([s EXCEPT !.task[p] = NoTask], p, "hauled")

\* abort_and_relinquish_slot(stock, entity, chosen_slot)
abort_and_relinquish_slot(s, p, args) ==
    One({ IF ~Running(s1) THEN s1
          ELSE Ended([s1 EXCEPT !.task[p] = NoTask], p, "hauled")
          : s1 \in {relinquish(s, p, "location", args.chosen_slot)} })

\* functools.partial(proc, ...)()
CallProc(s, p, proc, args) ==
    IF ~Running(s) THEN s
    ELSE CASE proc = "complete_mining" -> complete_mining(s, p, args)
           [] proc = "forget_job" -> forget_job(s, p, args)
           [] proc = "start_mining" -> start_mining(s, p, args)
           [] proc = "pick_up_entity" -> pick_up_entity(s, p, args)
           [] proc = "abort_entity_inaccessible" -> abort_entity_inaccessible(s, p, args)
           [] proc = "haul_entity_to_slot" -> haul_entity_to_slot(s, p, args)
           [] proc = "abort_dump_wherever" -> abort_dump_wherever(s, p, args)
           [] proc = "try_to_dump" -> try_to_dump(s, p, args)
           [] proc = "die_no_dump_location" -> die_no_dump_location(s, p, args)
           [] proc = "put_entity_into_slot" -> put_entity_into_slot(s, p, args)
           [] proc = "abort_no_cleanup_needed" -> abort_no_cleanup_needed(s, p, args)
           [] proc = "abort_and_relinquish_slot" -> abort_and_relinquish_slot(s, p, args)
           [] OTHER -> Raise(s, "call of an undefined procedure")

\* the scan conditions of a Mine job (arctia.py 142, 146)
\* the eligibility test without the is_reserved check
job_is_eligible_unchecked(s, p, j) ==
    /\ in_partition(s, p, JobLoc(j))
    /\ ~s.done[j]

\* the test of the Mine job loop (arctia.py 139-147)
job_is_eligible(s, p, j) ==
    /\ in_partition(s, p, JobLoc(j))
    /\ ~(is_reserved(s, "mine", j) \/ s.done[j])

\* the cells of a stockpile
stock_cells(stock) ==
    {c \in Cells : /\ c[1] >= stock.x /\ c[1] < stock.x + stock.width
                   /\ c[2] >= stock.y /\ c[2] < stock.y + stock.height}

\* the slot scan without its is_reserved test
open_slots_unchecked(s, stock) ==
    {loc \in stock_cells(stock) :
        ~(entity_at(s, loc) # NoEntity
          /\ kind(entity_at(s, loc)) \in stock.accepted_kinds)}

\* the slot scan (arctia.py 186-201): the open slots of a stockpile
open_slots(s, stock) ==
    {loc \in stock_cells(stock) :
        /\ ~(entity_at(s, loc) # NoEntity
             /\ kind(entity_at(s, loc)) \in stock.accepted_kinds)
        /\ ~is_reserved(s, "location", loc)}

\* the first cell of a set in the scan order: rows top down, left to right
first_in_scan(cells) ==
    CHOOSE c \in cells : \A d \in cells :
        c[2] < d[2] \/ (c[2] = d[2] /\ c[1] <= d[1])

\* _entity_is_stockpiled(entity, x, y)
entity_is_stockpiled(s, entity, c) ==
    \E i \in 1 .. Len(s.stockpiles) :
        /\ kind(entity) \in s.stockpiles[i].accepted_kinds
        /\ c \in stock_cells(s.stockpiles[i])

\* the for loop over the stockpiles (arctia.py 176-339), from index i on
RECURSIVE scan_stockpiles(_, _, _)
scan_stockpiles(s, p, i) ==
    IF i > Len(s.stockpiles) THEN s
    ELSE LET stock == s.stockpiles[i]
             wanted == [el \in s.entity_list |->
                          /\ in_partition(s, p, el[2])
                          /\ kind(el[1]) \in stock.accepted_kinds
                          /\ ~is_reserved(s, "entity", el[1])
                          /\ ~entity_is_stockpiled(s, el[1], el[2])]
         IN IF ~in_partition(s, p, <<stock.x, stock.y>>) \/ open_slots(s, stock) = {}
            THEN scan_stockpiles(s, p, i + 1)
            ELSE One({ IF result = <<>> THEN s
                       ELSE One({ start_haul_job(Started(s, p, "haul", args), p, args)
                                  : args \in {[job |-> NoJob, stock |-> i,
                                               entity |-> result[1],
                                               chosen_slot |->
                                                 first_in_scan(open_slots(s, stock))]} })
                       : result \in {find_entity(s, wanted)} })

\* the Mine job loop without its team.reserve call
RECURSIVE scan_jobs_unreserved(_, _, _)
scan_jobs_unreserved(s, p, i) ==
    IF i > Len(s.jobs) THEN scan_stockpiles(s, p, 1)
    ELSE IF ~job_is_eligible(s, p, s.jobs[i]) THEN scan_jobs_unreserved(s, p, i + 1)
    ELSE One({ NewTaskGo(Started(s, p, "mine", args), p, JobLoc(s.jobs[i]),
                         "forget_job", "start_mining", args)
               : args \in {[NoArgs EXCEPT !.job = s.jobs[i]]} })

\* the Mine job loop passing over the first job of a longer list
RECURSIVE scan_jobs_from_second(_, _, _)
scan_jobs_from_second(s, p, i) ==
    IF i > Len(s.jobs) THEN scan_stockpiles(s, p, 1)
    ELSE IF ~job_is_eligible(s, p, s.jobs[i]) \/ (i = 1 /\ Len(s.jobs) > 1)
         THEN scan_jobs_from_second(s, p, i + 1)
    ELSE One({ reserve(NewTaskGo(Started(s, p, "mine", args), p, JobLoc(s.jobs[i]),
                                 "forget_job", "start_mining", args),
                       p, "mine", s.jobs[i])
               : args \in {[NoArgs EXCEPT !.job = s.jobs[i]]} })

\* the for loop over the Mine jobs (arctia.py 138-173), from index i on
RECURSIVE scan_jobs(_, _, _)
scan_jobs(s, p, i) ==
    IF i > Len(s.jobs) THEN scan_stockpiles(s, p, 1)
    ELSE IF ~job_is_eligible(s, p, s.jobs[i]) THEN scan_jobs(s, p, i + 1)
    ELSE One({ reserve(NewTaskGo(Started(s, p, "mine", args), p, JobLoc(s.jobs[i]),
                                 "forget_job", "start_mining", args),
                       p, "mine", s.jobs[i])
               : args \in {[NoArgs EXCEPT !.job = s.jobs[i]]} })

\* Penguin._look_for_job
look_for_job(s, p) ==
    IF ~Running(s) THEN s
    ELSE IF s.task[p] # NoTask
         THEN Raise(s, "Penguin looked for a job but it already has a task")
    ELSE scan_jobs(s, p, 1)

\* Penguin.update
update(s, p) ==
    One({ IF Running(s1) /\ s1.task[p] # NoTask THEN enact(s1, p) ELSE s1
          : s1 \in {IF s.task[p] = NoTask THEN look_for_job(s, p) ELSE s} })

\* ------------------------------------------------------- main loop
\* the number of frames per tick (arctia.py:713)
FRAMES == 10

\* "for job in jobs: if job.done: jobs.remove(job)": one pass; removing the
\* entry under the iterator makes it skip the entry that follows
RECURSIVE delete_pass(_, _, _)
delete_pass(js, dn, i) ==
    IF i > Len(js) THEN js
    ELSE IF dn[js[i]]
         THEN delete_pass(SubSeq(js, 1, i - 1) \o SubSeq(js, i + 1, Len(js)), dn, i + 1)
    ELSE delete_pass(js, dn, i + 1)

RECURSIVE delete_passes(_, _, _)
delete_passes(js, dn, n) ==
    IF n = 0 THEN js ELSE delete_passes(delete_pass(js, dn, 1), dn, n - 1)

\* the program state as one value, with the outcome of the random choices
\* of the step
State(pick_entity, pick_cell) ==
    [data |-> data, entity_matrix |-> entity_matrix, entity_list |-> entity_list,
     location |-> location, pos |-> pos, held |-> held, task |-> task,
     jobs |-> jobs, done |-> done, stockpiles |-> stockpiles, team |-> team,
     crashed |-> crashed, made |-> made, max_fires |-> max_fires,
     enacted_consumed |-> enacted_consumed, searched_again |-> searched_again,
     history |-> history,
     outcome |-> outcome, plan |-> plan,
     pick_entity |-> pick_entity, pick_cell |-> pick_cell]

Becomes(s) ==
    /\ data' = s.data
    /\ entity_matrix' = s.entity_matrix
    /\ entity_list' = s.entity_list
    /\ location' = s.location
    /\ pos' = s.pos
    /\ held' = s.held
    /\ task' = s.task
    /\ jobs' = s.jobs
    /\ done' = s.done
    /\ stockpiles' = s.stockpiles
    /\ team' = s.team
    /\ crashed' = s.crashed
    /\ made' = s.made
    /\ max_fires' = s.max_fires
    /\ enacted_consumed' = s.enacted_consumed
    /\ searched_again' = s.searched_again
    /\ history' = s.history
    /\ outcome' = s.outcome
    /\ plan' = s.plan

LastPenguin == CHOOSE p \in Penguins : \A q \in Penguins : q <= p

\* no timed scenario is running
NoClock == [ticks |-> -1, start |-> NoLoc, tid |-> FLOOR]

\* the ticks a timed scenario is followed for
MaxTicks == 14

\* the frames between two ticks: finished jobs leave the job list
DeleteFinishedJobs ==
    /\ turn = 0
    /\ crashed = "none"
    /\ jobs' = delete_passes(jobs, done, FRAMES)
    /\ turn' = 1
    /\ tick_eligible' =
         [p \in Penguins |->
            IF task[p] = NoTask
            THEN SelectSeq(jobs', LAMBDA j : job_is_eligible(State(NoEntity, NoLoc), p, j))
            ELSE <<>>]
    /\ UNCHANGED <<data, entity_matrix, entity_list, location, pos, held, task,
                   done, stockpiles, team, crashed, made, max_fires,
                   enacted_consumed, history, outcome, plan, last_op, last_call,
                   tile_changes, searched_again, search>>
    /\ clock' = IF clock.ticks \in 0 .. MaxTicks - 1
                THEN [clock EXCEPT !.ticks = @ + 1] ELSE clock

\* the entities random.shuffle can put first in Stage.entity_list
Shuffles ==
    IF entity_list = {} THEN {NoEntity} ELSE {el[1] : el \in entity_list}

\* penguin.update() of the main loop's "for penguin in penguins"
Update(p) ==
    /\ turn = p
    /\ crashed = "none"
    /\ \E pick_entity \in Shuffles, pick_cell \in Cells :
          \E s \in {State(pick_entity, pick_cell)} :
             \E s1 \in {update(s, p)} : Becomes(s1)
    /\ turn' = IF p = LastPenguin THEN 0 ELSE p + 1
    /\ UNCHANGED <<tick_eligible, last_op, last_call, tile_changes, search, clock>>

IceCells == {JobLoc(j) : j \in JobIds}

\* the pairs the ledger alone is exercised with: the same two keys in every
\* category
Keys == {"k1", "k2"}

LedgerKeys == Categories \X Keys

EmptyLedger == [mine |-> {}, location |-> {}, entity |-> {}]

NoCall == [op |-> "none", category |-> "none", key |-> "none", ok |-> TRUE,
           before |-> EmptyLedger]

InitStockpiles ==
    << [x |-> 0, y |-> 2, width |-> 2, height |-> 1, accepted_kinds |-> {"fish"}] >>

InitLocations ==
    {l \in [Entities -> Cells \cup {NoLoc}] :
        /\ l["f1"] \in {<<0, 0>>, <<1, 1>>}
        /\ l["f2"] \in {<<1, 0>>}
        /\ l["r1"] \in {<<0, 2>>, <<0, 1>>}
        /\ l["f3"] = NoLoc}

Init ==
    /\ data = [c \in Cells |-> IF c \in IceCells THEN ICE ELSE FLOOR]
    /\ location \in InitLocations
    /\ entity_matrix = [c \in Cells |->
                          IF \E e \in Entities : location[e] = c
                          THEN CHOOSE e \in Entities : location[e] = c
                          ELSE NoEntity]
    /\ entity_list = {<<e, location[e]>> : e \in {x \in Entities : location[x] # NoLoc}}
    /\ pos \in [Penguins -> {<<0, 0>>, <<1, 1>>, <<1, 2>>}]
    /\ held = [p \in Penguins |-> NoEntity]
    /\ task = [p \in Penguins |-> NoTask]
    /\ jobs \in {<<>>, <<"j1">>, <<"j1", "j2">>}
    /\ done = [j \in JobIds |-> FALSE]
    /\ stockpiles = InitStockpiles
    /\ team = EmptyLedger
    /\ crashed = "none"
    /\ turn = 0
    /\ made = [p \in Penguins |-> {}]
    /\ max_fires = 0
    /\ enacted_consumed = FALSE
    /\ history = [p \in Penguins |-> <<>>]
    /\ outcome = [p \in Penguins |-> "idle"]
    /\ plan = [p \in Penguins |-> [kind |-> "none", args |-> NoArgs]]
    /\ tick_eligible = [p \in Penguins |-> <<>>]
    /\ last_op = [k \in LedgerKeys |-> "none"]
    /\ last_call = NoCall
    /\ tile_changes = 0
    /\ searched_again = FALSE
    /\ search = NoSearch
    /\ clock = NoClock

Next == DeleteFinishedJobs \/ \E p \in Penguins : Update(p)

Spec == Init /\ [][Next]_vars

\* ------------------------------------------------- a map that changes
\* Between two ticks somebody else makes a floor tile of the stockpile's row
\* solid with Stage.set_tile_at (no penguin stands on it); the partitions
\* follow.
MaxTileChanges == 1

SolidChange(c) ==
    /\ turn = 0
    /\ crashed = "none"
    /\ tile_changes < MaxTileChanges
    /\ ~tile_is_solid(get_tile_at(data, c))
    /\ \A p \in Penguins : pos[p] # c
    /\ data' = set_tile_at(State(NoEntity, NoLoc), c, ICE).data
    /\ tile_changes' = tile_changes + 1
    /\ UNCHANGED <<entity_matrix, entity_list, location, pos, held, task, jobs,
                   done, stockpiles, team, crashed, turn, made, max_fires,
                   enacted_consumed, history, outcome, plan, tick_eligible,
                   last_op, last_call, searched_again, search, clock>>

TileChange(c) == c[2] = InitStockpiles[1].y /\ SolidChange(c)

\* two narrow maps: a corridor down the left column and along the bottom row,
\* and the bottom row alone
CorridorWalls == {<<1, 0>>, <<1, 1>>} \cup IceCells

RowWalls == {c \in Cells : c[2] # 2}

NarrowInit ==
    /\ \E walls \in {CorridorWalls, RowWalls} :
          /\ data = [c \in Cells |-> IF c \in walls THEN ICE ELSE FLOOR]
          /\ location \in {l \in [Entities -> Cells \cup {NoLoc}] :
                              /\ l["f1"] = <<2, 2>>
                              /\ l["f2"] = <<1, 2>>
                              /\ l["r1"] \in {<<0, 2>>, <<0, 1>>} \ walls
                              /\ l["f3"] = NoLoc}
          /\ pos \in [Penguins -> {<<0, 0>>, <<0, 1>>, <<0, 2>>, <<1, 2>>} \ walls]
          /\ jobs \in {<<>>, <<"j2">>}
          /\ walls = RowWalls => jobs = <<>>
    /\ entity_matrix = [c \in Cells |->
                          IF \E e \in Entities : location[e] = c
                          THEN CHOOSE e \in Entities : location[e] = c
                          ELSE NoEntity]
    /\ entity_list = {<<e, location[e]>> : e \in {x \in Entities : location[x] # NoLoc}}
    /\ held = [p \in Penguins |-> NoEntity]
    /\ task = [p \in Penguins |-> NoTask]
    /\ done = [j \in JobIds |-> FALSE]
    /\ stockpiles = InitStockpiles
    /\ team = EmptyLedger
    /\ crashed = "none"
    /\ turn = 0
    /\ made = [p \in Penguins |-> {}]
    /\ max_fires = 0
    /\ enacted_consumed = FALSE
    /\ history = [p \in Penguins |-> <<>>]
    /\ outcome = [p \in Penguins |-> "idle"]
    /\ plan = [p \in Penguins |-> [kind |-> "none", args |-> NoArgs]]
    /\ tick_eligible = [p \in Penguins |-> <<>>]
    /\ last_op = [k \in LedgerKeys |-> "none"]
    /\ last_call = NoCall
    /\ tile_changes = 0
    /\ searched_again = FALSE
    /\ search = NoSearch
    /\ clock = NoClock

ChangingNext ==
    \/ DeleteFinishedJobs
    \/ \E p \in Penguins : Update(p)
    \/ \E c \in Cells : TileChange(c)

ChangingSpec == NarrowInit /\ [][ChangingNext]_vars

\* ------------------------------------------------- reservations
\* The keys the active plan of penguin p has reserved and not yet released, as
\* the plan's own arguments name them: the job of a mining plan; the slot and
\* the entity of a haul up to the pick-up; the slot of a haul from the pick-up
\* to the drop.
PlanKeys(p) ==
    LET t == task[p]
    IN IF t = NoTask THEN {}
       ELSE IF t.args.job # NoJob THEN {<<"mine", t.args.job>>}
       ELSE IF \/ t.kind = "Go" /\ t.finished_proc = "pick_up_entity"
               \/ t.kind = "Take"
            THEN {<<"location", t.args.chosen_slot>>, <<"entity", plan[p].args.entity>>}
       ELSE IF \/ t.kind = "Go" /\ t.finished_proc = "put_entity_into_slot"
               \/ t.kind = "Drop" /\ t.finished_proc = "abort_and_relinquish_slot"
               \/ t.kind = "Trade"
            THEN {<<"location", t.args.chosen_slot>>}
       ELSE {}

\* C1: at any time a (category, key) pair is claimed by at most one penguin:
\* the plans of two penguins never name the same key, and every key a running
\* plan names is in the ledger, put there by that plan's penguin.
C1_MutualExclusion ==
    /\ \A p, q \in Penguins : p # q => PlanKeys(p) \cap PlanKeys(q) = {}
    /\ crashed = "none" =>
          \A p \in Penguins : \A k \in PlanKeys(p) :
             ledger_is_reserved(team, k[1], k[2]) /\ k \in made[p]

\* both penguins hold a claim of the same category at the same time, on keys
\* either of them could have taken
C1_Witness ==
    /\ crashed = "none"
    /\ \E k1 \in PlanKeys(1), k2 \in PlanKeys(2) : k1[1] = k2[1] /\ k1 # k2

\* C2: when a plan has ended and its penguin is idle, nothing the penguin
\* reserved is still in the ledger.
C2_NoDanglingClaims ==
    \A p \in Penguins :
       (crashed = "none" /\ task[p] = NoTask) => made[p] = {}

\* C3: no task object calls more than one continuation.
C3_AtMostOneContinuation == max_fires <= 1

\* a TaskGoToAnyMatchingSpot has searched again inside enact() and has called
\* a continuation, after the tasks before it have called theirs
C3_Witness ==
    /\ searched_again
    /\ max_fires = 1
    /\ \E p \in Penguins :
          history[p] = <<"Go", "Take", "Go", "Trade", "GoToAnyMatchingSpot">>

\* C4: a task that has called a continuation is never the active task of a
\* penguin afterwards and is never enacted again.
C4_TaskConsumed ==
    /\ \A p \in Penguins : task[p].fires = 0
    /\ ~enacted_consumed

\* Team.reserve(category, key), called on any key in any ledger state
TeamReserve(k) ==
    LET r == ledger_reserve(team, k[1], k[2])
    IN /\ team' = r.team
       /\ last_op' = IF r.ok THEN [last_op EXCEPT ![k] = "reserve"] ELSE last_op
       /\ last_call' = [op |-> "reserve", category |-> k[1], key |-> k[2],
                        ok |-> r.ok, before |-> team]

\* Team.relinquish(category, key), called on any key in any ledger state
TeamRelinquish(k) ==
    LET r == ledger_relinquish(team, k[1], k[2])
    IN /\ team' = r.team
       /\ last_op' = IF r.ok THEN [last_op EXCEPT ![k] = "relinquish"] ELSE last_op
       /\ last_call' = [op |-> "relinquish", category |-> k[1], key |-> k[2],
                        ok |-> r.ok, before |-> team]

WorldUnchanged ==
    UNCHANGED <<data, entity_matrix, entity_list, location, pos, held, task, jobs,
                done, stockpiles, crashed, turn, made, max_fires,
                enacted_consumed, history, outcome, plan, tick_eligible,
                tile_changes, searched_again, search, clock>>

LedgerInit ==
    /\ Init
    /\ jobs = <<>>
    /\ pos = [p \in Penguins |-> <<1, 1>>]
    /\ location = [e \in Entities |->
                     IF e = "f3" THEN NoLoc
                     ELSE IF e = "f1" THEN <<0, 0>> ELSE IF e = "f2" THEN <<1, 0>> ELSE <<0, 1>>]

LedgerNext ==
    \/ \E k \in LedgerKeys : TeamReserve(k) /\ WorldUnchanged
    \/ \E k \in LedgerKeys : TeamRelinquish(k) /\ WorldUnchanged

LedgerSpec == LedgerInit /\ [][LedgerNext]_vars

\* ------------------------------------------------- plans
HasJob(p, j) == task[p] # NoTask /\ task[p].args.job = j

Range(f) == {f[i] : i \in DOMAIN f}

\* the Mine jobs both penguins were idle and eligible for when the tick began
Contested == Range(tick_eligible[1]) \cap Range(tick_eligible[2])

\* the jobs penguin 2 is still eligible for once penguin 1 has taken its job
LeftForSecond ==
    SelectSeq(tick_eligible[2],
              LAMBDA j : tick_eligible[1] = <<>> \/ j # Head(tick_eligible[1]))

\* C7 as stated: at the end of a tick every Mine job both idle penguins were
\* eligible for is reserved by the penguin updated first, and the other
\* penguin does not have it.
C7_FirstUpdatedWins ==
    turn = 0 =>
       \A j \in Contested :
          /\ HasJob(1, j) /\ ~HasJob(2, j)
          /\ ledger_is_reserved(team, "mine", j)

\* C7: at the end of a tick no Mine job both idle penguins were eligible for
\* is the job of both; the first eligible job in list order of the penguin
\* updated first is reserved by that penguin; the first job in list order
\* still open to the second penguin is reserved by the second penguin; and a
\* penguin that has such a job is the one that reserved it.
C7_ContestedJob ==
    turn = 0 =>
       \A j \in Contested :
          /\ ~(HasJob(1, j) /\ HasJob(2, j))
          /\ j = Head(tick_eligible[1]) =>
                /\ HasJob(1, j) /\ ~HasJob(2, j)
                /\ ledger_is_reserved(team, "mine", j)
          /\ (LeftForSecond # <<>> /\ j = Head(LeftForSecond)) =>
                /\ HasJob(2, j) /\ ~HasJob(1, j)
                /\ ledger_is_reserved(team, "mine", j)
          /\ \A p \in Penguins : HasJob(p, j) => <<"mine", j>> \in made[p]

\* a tick has ended in which both penguins were idle and eligible for both
\* jobs: the first has the first job, the second the second
C7_Witness ==
    /\ turn = 0
    /\ Contested = {"j1", "j2"}
    /\ HasJob(1, "j1") /\ HasJob(2, "j2")

\* where the haul of penguin p is: "fetch" (Go to the entity), "take",
\* "carry" (Go to the slot), "drop", "trade", "dump" (the displaced entity is
\* being carried off or dropped), or "none"
HaulStage(p) ==
    LET t == task[p]
    IN IF t = NoTask \/ plan[p].kind # "haul" THEN "none"
       ELSE IF t.kind = "Go" /\ t.finished_proc = "pick_up_entity" THEN "fetch"
       ELSE IF t.kind = "Take" THEN "take"
       ELSE IF t.kind = "Go" /\ t.finished_proc = "put_entity_into_slot" THEN "carry"
       ELSE IF t.kind = "Drop" /\ t.finished_proc = "abort_and_relinquish_slot"
            THEN "drop"
       ELSE IF t.kind = "Trade" THEN "trade"
       ELSE "dump"

Hauled(p) == plan[p].args.entity

Slot(p) == plan[p].args.chosen_slot

IsPrefix(a, b) == Len(a) <= Len(b) /\ a = SubSeq(b, 1, Len(a))

\* C8: a haul reserves the entity and the slot when it starts; its tasks are
\* built in the order Go, Take, Go, Drop; Take is the active task only while
\* the penguin stands on the entity's cell and Drop only while it stands on
\* the slot; and after Drop has succeeded the entity lies in the slot, the
\* penguin holds nothing, its task is none, and neither the entity nor the
\* slot is reserved.
C8_HaulSuccess ==
    \A p \in Penguins :
       /\ plan[p].kind = "haul" =>
             \/ IsPrefix(history[p], <<"Go", "Take", "Go", "Drop">>)
             \/ IsPrefix(<<"Go", "Take", "Go", "Trade">>, history[p])
       /\ HaulStage(p) = "fetch" =>
             /\ ledger_is_reserved(team, "entity", Hauled(p))
             /\ ledger_is_reserved(team, "location", Slot(p))
             /\ task[p].target = location[Hauled(p)]
       /\ HaulStage(p) = "take" =>
             /\ pos[p] = location[Hauled(p)]
             /\ history[p] = <<"Go", "Take">>
       /\ HaulStage(p) = "carry" =>
             /\ held[p] = Hauled(p)
             /\ task[p].target = Slot(p)
             /\ history[p] = <<"Go", "Take", "Go">>
       /\ HaulStage(p) = "drop" =>
             /\ pos[p] = Slot(p)
             /\ held[p] = Hauled(p)
             /\ history[p] = <<"Go", "Take", "Go", "Drop">>
       /\ outcome[p] = "hauled" =>
             /\ history[p] = <<"Go", "Take", "Go", "Drop">>
             /\ location[Hauled(p)] = Slot(p)
             /\ entity_matrix[Slot(p)] = Hauled(p)
             /\ held[p] = NoEntity
             /\ task[p] = NoTask
             /\ ~ledger_is_reserved(team, "entity", Hauled(p))
             /\ ~ledger_is_reserved(team, "location", Slot(p))

\* a penguin has hauled a fish into a slot it had to walk to
C8_Witness ==
    \E p \in Penguins :
       /\ outcome[p] = "hauled"
       /\ crashed = "none"
       /\ location[Hauled(p)] = Slot(p)
       /\ pos[p] = Slot(p)

\* C9 as stated: from the start of a haul until its Drop into the slot has
\* succeeded, both the hauled entity and the slot are reserved.
C9_BothReservedThroughout ==
    \A p \in Penguins :
       (crashed = "none" /\ HaulStage(p) \in {"fetch", "take", "carry", "drop", "trade"})
          => /\ ledger_is_reserved(team, "entity", Hauled(p))
             /\ ledger_is_reserved(team, "location", Slot(p))

\* C9: the slot is reserved by the hauling penguin from the start of the haul
\* until its Drop or Trade into the slot; the entity is reserved by it until
\* it has been picked up, and from then on it is held by the penguin and is
\* not reserved.
C9_ReservationsAcrossHaul ==
    \A p \in Penguins :
       crashed = "none" =>
          /\ HaulStage(p) \in {"fetch", "take", "carry", "drop", "trade"} =>
                /\ ledger_is_reserved(team, "location", Slot(p))
                /\ <<"location", Slot(p)>> \in made[p]
          /\ HaulStage(p) \in {"fetch", "take"} =>
                /\ ledger_is_reserved(team, "entity", Hauled(p))
                /\ <<"entity", Hauled(p)>> \in made[p]
                /\ held[p] = NoEntity
          /\ HaulStage(p) \in {"carry", "drop", "trade"} =>
                /\ held[p] = Hauled(p)
                /\ ~ledger_is_reserved(team, "entity", Hauled(p))

\* a penguin is carrying the entity to the slot, some cells away from it
C9_Witness ==
    \E p \in Penguins :
       /\ crashed = "none"
       /\ HaulStage(p) = "carry"
       /\ pos[p] # Slot(p)
       /\ held[p] = Hauled(p)

\* C10: Trade is the active task only at an occupied slot; after it the hauled
\* entity lies in the slot and the penguin holds the occupant while it looks
\* for an empty cell; the occupant is dropped on a cell that was empty; no
\* entity is ever neither on the stage nor held; and no penguin is idle while
\* it holds an entity.
C10_OccupiedSlotRecovery ==
    /\ \A p \in Penguins :
          /\ HaulStage(p) = "trade" =>
                /\ pos[p] = Slot(p)
                /\ held[p] = Hauled(p)
                /\ entity_matrix[Slot(p)] = task[p].entity
                /\ task[p].entity # NoEntity
          /\ task[p].kind = "GoToAnyMatchingSpot" =>
                /\ held[p] = task[p].args.entity
                /\ held[p] # NoEntity
                /\ location[Hauled(p)] = Slot(p)
          /\ task[p] = NoTask => held[p] = NoEntity
    /\ \A e \in Usual :
          location[e] # NoLoc \/ \E p \in Penguins : held[p] = e

\* C5: a (category, key) pair is reserved exactly from a successful reserve
\* until the matching successful relinquish, and a call on one pair leaves
\* every other pair of every category as it was.
C5_LedgerTracksReservations ==
    /\ \A k \in LedgerKeys :
          ledger_is_reserved(team, k[1], k[2]) <=> last_op[k] = "reserve"
    /\ \A k \in LedgerKeys :
          k # <<last_call.category, last_call.key>> =>
             (ledger_is_reserved(team, k[1], k[2])
                <=> ledger_is_reserved(last_call.before, k[1], k[2]))

\* a key has been reserved and relinquished while the same key of another
\* category and another key of the same category stay reserved
C5_Witness ==
    /\ last_op[<<"location", "k1">>] = "relinquish"
    /\ last_call = [op |-> "relinquish", category |-> "location", key |-> "k1",
                    ok |-> TRUE, before |-> [team EXCEPT !.location = @ \cup {"k1"}]]
    /\ ledger_is_reserved(team, "location", "k2")
    /\ ledger_is_reserved(team, "mine", "k1")
    /\ ~ledger_is_reserved(team, "entity", "k1")

\* C6: reserving a reserved pair and relinquishing a pair that is not reserved
\* are errors, and neither changes the ledger.
C6_LedgerErrors ==
    /\ (last_call.op = "reserve"
          /\ ledger_is_reserved(last_call.before, last_call.category, last_call.key))
       => (~last_call.ok /\ team = last_call.before)
    /\ (last_call.op = "relinquish"
          /\ ~ledger_is_reserved(last_call.before, last_call.category, last_call.key))
       => (~last_call.ok /\ team = last_call.before)
    /\ ~last_call.ok =>
          (ledger_is_reserved(last_call.before, last_call.category, last_call.key)
             <=> last_call.op = "reserve")

\* a relinquish of a pair that is not reserved has just been rejected, in a
\* ledger that holds other pairs of that category
C6_Witness ==
    /\ last_call.op = "relinquish" /\ ~last_call.ok
    /\ team[last_call.category] # {}

\* ------------------------------------------------- the job search alone
\* how many unit moves the owner of the search makes while it runs
MaxMoves == 2

\* what the search reads: the tiles, the list of Mine jobs and their flags
World ==
    [data |-> data, jobs |-> jobs, done |-> done,
     reserved |-> [j \in JobIds |-> ledger_is_reserved(team, "mine", j)],
     loc |-> search.loc]

\* the owner starts the search from where it stands
SearchStart ==
    /\ ~search.started
    /\ search' = [search EXCEPT !.js = start_search(@, search.at), !.started = TRUE,
                                !.origin = search.at]

\* one call of run(limit = 1), in its timeslice or not
SearchRun(in_timeslice) ==
    /\ search.started /\ search.js.busy
    /\ \E r \in {run(World, search.js, 1, in_timeslice)} :
          search' = [search EXCEPT !.js = r.js, !.result = r.result,
                                   !.runs = IF in_timeslice THEN @ + 1 ELSE @]

\* the owner makes a unit move onto a walkable cell and tells the search
SearchMove(off) ==
    /\ search.started /\ search.js.busy
    /\ search.moves < MaxMoves
    /\ Plus(search.at, off) \in Cells
    /\ ~tile_is_solid(get_tile_at(data, Plus(search.at, off)))
    /\ search' = [search EXCEPT !.js = notify(@, off), !.at = Plus(search.at, off),
                                !.moves = @ + 1]

SearchWorldUnchanged ==
    UNCHANGED <<data, entity_matrix, entity_list, location, pos, held, task, jobs,
                done, stockpiles, team, crashed, turn, made, max_fires,
                enacted_consumed, history, outcome, plan, tick_eligible,
                last_op, last_call, tile_changes, searched_again, clock>>

\* walls in the middle column, Mine jobs on the ice of the right column, some
\* of them reserved or done, the owner on any floor cell
SearchInit ==
    /\ \E walls \in {{}, {<<1, 1>>}, {<<1, 0>>, <<1, 1>>},
                      {<<1, 0>>, <<1, 1>>, <<1, 2>>}} :
          data = [c \in Cells |-> IF c \in walls \cup IceCells THEN ICE ELSE FLOOR]
    /\ jobs \in {<<>>, <<"j1">>, <<"j2", "j1">>}
    /\ \E finished \in {{}, {"j2"}} : done = [j \in JobIds |-> j \in finished]
    /\ \E mine \in {{}, {"j1"}} : team = [EmptyLedger EXCEPT !.mine = mine]
    /\ \E at \in Cells :
          /\ ~tile_is_solid(get_tile_at(data, at))
          /\ search = [NoSearch EXCEPT !.at = at]
    /\ clock = NoClock
    /\ location = [e \in Entities |->
                     IF e = "f3" THEN NoLoc
                     ELSE IF e = "f1" THEN <<0, 0>> ELSE IF e = "f2" THEN <<0, 1>> ELSE <<0, 2>>]
    /\ entity_matrix = [c \in Cells |->
                          IF \E e \in Entities : location[e] = c
                          THEN CHOOSE e \in Entities : location[e] = c
                          ELSE NoEntity]
    /\ entity_list = {<<e, location[e]>> : e \in {x \in Entities : location[x] # NoLoc}}
    /\ pos = [p \in Penguins |-> <<0, 0>>]
    /\ held = [p \in Penguins |-> NoEntity]
    /\ task = [p \in Penguins |-> NoTask]
    /\ stockpiles = InitStockpiles
    /\ crashed = "none"
    /\ turn = 0
    /\ made = [p \in Penguins |-> {}]
    /\ max_fires = 0
    /\ enacted_consumed = FALSE
    /\ history = [p \in Penguins |-> <<>>]
    /\ outcome = [p \in Penguins |-> "idle"]
    /\ plan = [p \in Penguins |-> [kind |-> "none", args |-> NoArgs]]
    /\ tick_eligible = [p \in Penguins |-> <<>>]
    /\ last_op = [k \in LedgerKeys |-> "none"]
    /\ last_call = NoCall
    /\ tile_changes = 0
    /\ searched_again = FALSE

SearchNext ==
    \/ SearchStart /\ SearchWorldUnchanged
    \/ \E in_timeslice \in BOOLEAN : SearchRun(in_timeslice) /\ SearchWorldUnchanged
    \/ \E off \in {SearchOffsets[i] : i \in 1 .. 8} : SearchMove(off) /\ SearchWorldUnchanged

SearchSpec == SearchInit /\ [][SearchNext]_vars

\* the result of one run() with an unbounded limit from the same origin
RunAtOnce == run(World, start_search(NewJobSearch, search.origin), Unbounded, TRUE).result

\* the cell a path of steps ends on when walked from cell c
RECURSIVE WalkEnd(_, _)
WalkEnd(c, path) ==
    IF path = <<>> THEN c ELSE WalkEnd(Plus(c, Head(path)), Tail(path))

\* the session is terminal: started, and busy is false again
Terminal == search.started /\ ~search.js.busy

\* C11: on an unchanged grid and job list, run(limit = 1) called until the
\* session is terminal returns the job one run() with an unbounded limit
\* returns from the same origin, or no job where that returns none, with the
\* same steps from the origin (after the steps notify() has put in front).
C11_AmortizationEquivalence ==
    Terminal =>
       /\ search.result.job = RunAtOnce.job
       /\ search.result.job # NoJob =>
             search.result.path = search.js.shortest_path \o RunAtOnce.path

\* a search that took several run(limit = 1) calls has found a job some steps
\* away, its owner standing still
C11_Witness ==
    /\ Terminal
    /\ search.runs >= 2
    /\ search.moves = 0
    /\ search.result.job # NoJob
    /\ Len(search.result.path) >= 2

\* C12: when the search finds a job, the returned path walked from where the
\* owner stands now ends on the job's cell, whatever unit moves the owner
\* made and reported with notify() between the run() calls.
C12_NotifyCorrection ==
    (Terminal /\ search.result.job # NoJob) =>
       WalkEnd(search.at, search.result.path) = search.loc[search.result.job]

\* the owner has moved twice, away from the origin, and the search has then
\* found a job
C12_Witness ==
    /\ Terminal
    /\ search.result.job # NoJob
    /\ search.moves = 2
    /\ search.at # search.origin
    /\ search.runs >= 2

\* ------------------------------------------------- entities
\* the cells whose entity_matrix entry is e, and the penguins that hold e
CellsOf(e) == {c \in Cells : entity_matrix[c] = e}

HoldersOf(e) == {p \in Penguins : held[p] = e}

\* C13: every entity is in exactly one place: on exactly one cell, which is
\* its location and its entry in entity_list, and held by nobody; or held by
\* exactly one penguin, with no location and on no cell.
C13_EntityConservation ==
    \A e \in Usual :
       \/ /\ location[e] \in Cells
          /\ CellsOf(e) = {location[e]}
          /\ {el \in entity_list : el[1] = e} = {<<e, location[e]>>}
          /\ HoldersOf(e) = {}
       \/ /\ location[e] = NoLoc
          /\ CellsOf(e) = {}
          /\ {el \in entity_list : el[1] = e} = {}
          /\ Cardinality(HoldersOf(e)) = 1

\* C14: every cell holds at most one entity: no two entities have the same
\* location, entity_list has at most one entry per cell, and an entity with a
\* location is the one entity_matrix has there; when add_entity fails on an
\* occupied cell, the occupant is still on it and the entity that was to be
\* dropped is not.
C14_SingleOccupancy ==
    /\ \A c \in Cells :
          /\ Cardinality({e \in Entities : location[e] = c}) <= 1
          /\ Cardinality({el \in entity_list : el[2] = c}) <= 1
    /\ \A e \in Entities :
          location[e] \in Cells => entity_matrix[location[e]] = e
    /\ crashed = "add_entity: location is not empty" =>
          \E p \in Penguins :
             /\ task[p].kind = "Drop"
             /\ entity_matrix[pos[p]] \notin {NoEntity, task[p].entity}
             /\ location[entity_matrix[pos[p]]] = pos[p]
             /\ location[task[p].entity] = NoLoc

\* a Drop on a cell that another penguin had filled has failed in add_entity
C14_Witness ==
    /\ crashed = "add_entity: location is not empty"
    /\ \E p \in Penguins :
          task[p].kind = "Drop" /\ entity_matrix[pos[p]] # NoEntity

\* -------------------------------------------- stockpiles of two kinds
\* The stockpiles are handed to the penguins from outside: here there is one
\* for rocks along the top row and one for fish along the bottom row, in
\* either order.
RockPile == [x |-> 0, y |-> 0, width |-> 2, height |-> 1, accepted_kinds |-> {"rock"}]

FishPile == InitStockpiles[1]

PilesInit ==
    /\ data = [c \in Cells |-> IF c \in IceCells THEN ICE ELSE FLOOR]
    /\ stockpiles \in {<<RockPile, FishPile>>, <<FishPile, RockPile>>}
    /\ location \in {l \in [Entities -> Cells \cup {NoLoc}] :
                        /\ l["f1"] = <<1, 1>>
                        /\ l["f2"] \in {<<0, 2>>, <<0, 1>>}
                        /\ l["r1"] \in {<<0, 0>>, <<1, 2>>, <<2, 2>>}
                        /\ l["f3"] = NoLoc}
    /\ entity_matrix = [c \in Cells |->
                          IF \E e \in Entities : location[e] = c
                          THEN CHOOSE e \in Entities : location[e] = c
                          ELSE NoEntity]
    /\ entity_list = {<<e, location[e]>> : e \in {x \in Entities : location[x] # NoLoc}}
    /\ pos \in [Penguins -> {<<0, 1>>, <<1, 1>>, <<2, 2>>}]
    /\ held = [p \in Penguins |-> NoEntity]
    /\ task = [p \in Penguins |-> NoTask]
    /\ jobs \in {<<>>, <<"j1">>}
    /\ done = [j \in JobIds |-> FALSE]
    /\ team = EmptyLedger
    /\ crashed = "none"
    /\ turn = 0
    /\ made = [p \in Penguins |-> {}]
    /\ max_fires = 0
    /\ enacted_consumed = FALSE
    /\ history = [p \in Penguins |-> <<>>]
    /\ outcome = [p \in Penguins |-> "idle"]
    /\ plan = [p \in Penguins |-> [kind |-> "none", args |-> NoArgs]]
    /\ tick_eligible = [p \in Penguins |-> <<>>]
    /\ last_op = [k \in LedgerKeys |-> "none"]
    /\ last_call = NoCall
    /\ tile_changes = 0
    /\ searched_again = FALSE
    /\ search = NoSearch
    /\ clock = NoClock

PilesSpec == PilesInit /\ [][Next]_vars

\* penguin p has just picked up entity e
PicksUp(p, e) == held'[p] = e /\ held[p] # e

\* C15: no penguin picks up, by Take or by Trade, an entity that another
\* penguin has reserved; and a penguin whose Take has been created stands on
\* the cell of the entity it reserved (no Take fails to be created because the
\* entity is gone).
C15_NoPoaching ==
    /\ [][\A p \in Penguins, e \in Entities :
             PicksUp(p, e) =>
                \A q \in Penguins \ {p} : <<"entity", e>> \notin made[q]]_vars
    /\ [](/\ crashed # "TaskTake: unit is not at the entity"
          /\ \A p \in Penguins :
                (crashed = "none" /\ task[p].kind = "Take") =>
                   location[task[p].entity] = pos[p])

\* penguin p carries an entity to the cell it is going to put it down in
Carrying(p) ==
    /\ held[p] # NoEntity
    /\ task[p].fires = 0
    /\ \/ task[p].kind = "Go" /\ task[p].finished_proc = "put_entity_into_slot"
       \/ task[p].kind = "GoToAnyMatchingSpot" /\ ~task[p].path_is_none

\* C16: no two penguins carry an entity towards the same cell at the same
\* time, be it the slot of a haul or the spot a displaced entity is dumped on.
C16_DistinctDestinations ==
    \A p \in Penguins, q \in Penguins :
        (p # q /\ Carrying(p) /\ Carrying(q)) => task[p].target # task[q].target

\* ------------------------------------------------------- Mine jobs
\* The open map and the corridor map, with the Mine jobs in either order; in
\* the corridor the tile of j1 borders no floor tile.
MineInit ==
    /\ \E walls \in {IceCells, CorridorWalls} :
          data = [c \in Cells |-> IF c \in walls THEN ICE ELSE FLOOR]
    /\ location = [e \in Entities |->
                     IF e = "f3" THEN NoLoc
                     ELSE IF e = "f1" THEN <<2, 2>>
                     ELSE IF e = "f2" THEN <<1, 2>> ELSE <<0, 1>>]
    /\ entity_matrix = [c \in Cells |->
                          IF \E e \in Entities : location[e] = c
                          THEN CHOOSE e \in Entities : location[e] = c
                          ELSE NoEntity]
    /\ entity_list = {<<e, location[e]>> : e \in {x \in Entities : location[x] # NoLoc}}
    /\ pos \in [Penguins -> {<<0, 0>>, <<0, 2>>, <<1, 2>>}]
    /\ held = [p \in Penguins |-> NoEntity]
    /\ task = [p \in Penguins |-> NoTask]
    /\ jobs \in {<<"j1">>, <<"j1", "j2">>, <<"j2", "j1">>}
    /\ done = [j \in JobIds |-> FALSE]
    /\ stockpiles = InitStockpiles
    /\ team = EmptyLedger
    /\ crashed = "none"
    /\ turn = 0
    /\ made = [p \in Penguins |-> {}]
    /\ max_fires = 0
    /\ enacted_consumed = FALSE
    /\ history = [p \in Penguins |-> <<>>]
    /\ outcome = [p \in Penguins |-> "idle"]
    /\ plan = [p \in Penguins |-> [kind |-> "none", args |-> NoArgs]]
    /\ tick_eligible = [p \in Penguins |-> <<>>]
    /\ last_op = [k \in LedgerKeys |-> "none"]
    /\ last_call = NoCall
    /\ tile_changes = 0
    /\ searched_again = FALSE
    /\ search = NoSearch
    /\ clock = NoClock

MineSpec == MineInit /\ [][Next]_vars

\* the Mine jobs of the list, in list order, whose tile is in the partition
\* of penguin p and which are neither reserved nor done
EligibleJobs(p) ==
    SelectSeq(jobs, LAMBDA j : /\ JobLoc(j) \in partition(data, pos[p])
                               /\ j \notin team.mine
                               /\ ~done[j])

\* penguin p is idle and is updated in this step
Dispatches(p) == turn = p /\ turn' # p /\ task[p] = NoTask

\* C17: the update of an idle penguin takes the first eligible Mine job of the
\* list: it reserves that job and no other key, leaves every job as it was,
\* and has TaskGo to the job's tile with start_mining as its continuation, or,
\* when that TaskGo finished at once, the TaskMine of the same tile; with no
\* eligible Mine job it reserves no Mine job and is left idle or with a haul.
C17_MineSelection ==
    [][\A p \in Penguins :
          Dispatches(p) =>
             IF EligibleJobs(p) # <<>>
             THEN /\ crashed' = "none"
                  /\ plan'[p].kind = "mine"
                  /\ plan'[p].args.job = Head(EligibleJobs(p))
                  /\ team' = [team EXCEPT !.mine = @ \cup {Head(EligibleJobs(p))}]
                  /\ done' = done /\ jobs' = jobs
                  /\ task'[p].target = JobLoc(Head(EligibleJobs(p)))
                  /\ task'[p].args.job = Head(EligibleJobs(p))
                  /\ \/ /\ task'[p].kind = "Go"
                        /\ task'[p].finished_proc = "start_mining"
                        /\ history'[p] = <<"Go">>
                     \/ /\ task'[p].kind = "Mine"
                        /\ task'[p].finished_proc = "complete_mining"
                        /\ history'[p] = <<"Go", "Mine">>
             ELSE /\ team'.mine = team.mine
                  /\ \/ crashed' # "none"
                     \/ task'[p] = NoTask
                     \/ plan'[p].kind = "haul" /\ task'[p].args = plan'[p].args]_vars

\* a penguin mines j2, the second job of the list, while j1 is neither
\* reserved nor done: j1 was passed over because its tile cannot be reached
C17_Witness ==
    /\ jobs = <<"j1", "j2">>
    /\ "j1" \notin team.mine /\ ~done["j1"]
    /\ \E p \in Penguins :
          /\ plan[p].kind = "mine" /\ plan[p].args.job = "j2"
          /\ task[p].kind = "Mine"

\* ------------------------------------------------------- haul jobs
\* the open slots of stockpile i that penguin p can reach and nobody reserved
FreeSlots(p, i) ==
    {c \in stock_cells(stockpiles[i]) :
        /\ c \in partition(data, pos[p])
        /\ c \notin team.location
        /\ ~(entity_matrix[c] # NoEntity
             /\ kind(entity_matrix[c]) \in stockpiles[i].accepted_kinds)}

\* the entities stockpile i accepts that penguin p can reach, that nobody
\* reserved and that lie in no stockpile accepting them
Haulable(p, i) ==
    {e \in Entities :
        /\ location[e] \in partition(data, pos[p])
        /\ kind(e) \in stockpiles[i].accepted_kinds
        /\ e \notin team.entity
        /\ ~\E k \in 1 .. Len(stockpiles) :
               /\ kind(e) \in stockpiles[k].accepted_kinds
               /\ location[e] \in stock_cells(stockpiles[k])}

Qualifies(p, i) == FreeSlots(p, i) # {} /\ Haulable(p, i) # {}

\* C18: the update of an idle penguin with no eligible Mine job starts a haul
\* for the first stockpile of the list that has a free slot and a haulable
\* entity, whatever the stockpiles before it lack; the penguin stays idle
\* only when no stockpile has both.
C18_HaulSelection ==
    [][\A p \in Penguins :
          (Dispatches(p) /\ EligibleJobs(p) = <<>>) =>
             IF \E i \in 1 .. Len(stockpiles) : Qualifies(p, i)
             THEN /\ plan'[p].kind = "haul"
                  /\ Qualifies(p, plan'[p].args.stock)
                  /\ \A k \in 1 .. plan'[p].args.stock - 1 : ~Qualifies(p, k)
                  /\ plan'[p].args.chosen_slot \in FreeSlots(p, plan'[p].args.stock)
                  /\ plan'[p].args.entity \in Haulable(p, plan'[p].args.stock)
             ELSE task'[p] = NoTask /\ team' = team]_vars

\* ------------------------------------------------- the mining scenario
\* An open grid, one Mine job on the tile of j1, penguin 1 one or two
\* diagonal steps away from it, no stockpile; the tile is solid, as every
\* tile the mine tool puts a job on, or passable like the rest of the grid.
\* Penguin 2 is updated after penguin 1 and never has a task.
ScenarioInit ==
    /\ clock \in {[ticks |-> 0, start |-> from, tid |-> tid] :
                    from \in {<<0, 2>>, <<1, 1>>}, tid \in {ICE, FLOOR}}
    /\ data = [c \in Cells |-> IF c = JobLoc("j1") THEN clock.tid ELSE FLOOR]
    /\ location = [e \in Entities |->
                     IF e = "f3" THEN NoLoc
                     ELSE IF e = "f1" THEN <<0, 0>>
                     ELSE IF e = "f2" THEN <<1, 0>> ELSE <<0, 1>>]
    /\ entity_matrix = [c \in Cells |->
                          IF \E e \in Entities : location[e] = c
                          THEN CHOOSE e \in Entities : location[e] = c
                          ELSE NoEntity]
    /\ entity_list = {<<e, location[e]>> : e \in {x \in Entities : location[x] # NoLoc}}
    /\ pos \in {q \in [Penguins -> Cells] :
                  q[1] = clock.start /\ q[2] \in {<<0, 0>>, <<0, 1>>}}
    /\ held = [p \in Penguins |-> NoEntity]
    /\ task = [p \in Penguins |-> NoTask]
    /\ jobs = <<"j1">>
    /\ done = [j \in JobIds |-> FALSE]
    /\ stockpiles = <<>>
    /\ team = EmptyLedger
    /\ crashed = "none"
    /\ turn = 0
    /\ made = [p \in Penguins |-> {}]
    /\ max_fires = 0
    /\ enacted_consumed = FALSE
    /\ history = [p \in Penguins |-> <<>>]
    /\ outcome = [p \in Penguins |-> "idle"]
    /\ plan = [p \in Penguins |-> [kind |-> "none", args |-> NoArgs]]
    /\ tick_eligible = [p \in Penguins |-> <<>>]
    /\ last_op = [k \in LedgerKeys |-> "none"]
    /\ last_call = NoCall
    /\ tile_changes = 0
    /\ searched_again = FALSE
    /\ search = NoSearch

ScenarioSpec == ScenarioInit /\ [][Next]_vars

\* the path of penguin 1 to the tile of the job: diagonal steps only
ScenarioPath ==
    astar([c \in Cells |-> FLOOR], clock.start, JobLoc("j1"))

Steps == Len(ScenarioPath)

\* the cell next to the job's tile that the path passes last
Stand == IF Steps = 1 THEN clock.start ELSE ScenarioPath[Steps - 1]

\* the ticks that pass before TaskMine exists
Arrival == IF clock.tid = ICE THEN Steps ELSE Steps + 1

Mines(p) == turn = p /\ turn' # p /\ task[p].kind = "Mine"

\* what enact() does to a Mine task of penguin p that has finished before
EnactedAgain(p) ==
    EnactMine([State(NoEntity, NoLoc) EXCEPT !.task[p].work_left = 0], p,
              [task[p] EXCEPT !.work_left = 0])

\* C20: a Mine task starts with WORK units of work; each of its first
\* WORK - 1 enact calls takes one unit and changes neither the tiles nor the
\* jobs nor the task otherwise; the enact call that takes the last unit makes
\* the tile passable and calls finished, which marks the job done and takes
\* the task away; a task with work left has called no continuation and its
\* tile is as it was; an enact call on a task that has finished changes no
\* tile and calls nothing.
C20_WorkCounter ==
    /\ [][\A p \in Penguins :
             /\ (task[p].kind # "Mine" /\ task'[p].kind = "Mine") =>
                   task'[p].work_left = WORK
             /\ Mines(p) =>
                   IF task[p].work_left > 1
                   THEN /\ task'[p] = [task[p] EXCEPT !.work_left = @ - 1]
                        /\ data' = data /\ done' = done /\ jobs' = jobs
                   ELSE /\ data' = [data EXCEPT ![task[p].target] = FLOOR]
                        /\ done' = [done EXCEPT ![task[p].args.job] = TRUE]
                        /\ task'[p].kind # "Mine"]_vars
    /\ [](\A p \in Penguins :
             task[p].kind = "Mine" =>
                /\ task[p].work_left \in 1 .. WORK
                /\ task[p].fires = 0
                /\ data[task[p].target] = ICE
                /\ ~done[task[p].args.job]
                /\ EnactedAgain(p).fire = <<>>
                /\ EnactedAgain(p).s.data = data)

\* a Mine task has made its last enact call: the job is done and its tile
\* passable, while the other penguin's Mine task still has work left
C20_Witness ==
    \E j \in JobIds, q \in Penguins :
        /\ done[j]
        /\ data[JobLoc(j)] = FLOOR
        /\ task[q].kind = "Mine" /\ task[q].work_left < WORK

\* -------------------------------------- the job search, jobs placed anywhere
\* The search reads job.location of the jobs it is given: j1 lies on any
\* cell, solid or not, j2 where the main loop has it, open, reserved or done;
\* the owner starts from any floor cell and stands still.
PlacedInit ==
    /\ \E walls \in {{}, {<<1, 0>>}, {<<1, 1>>}, {<<1, 0>>, <<1, 1>>, <<1, 2>>}} :
          data = [c \in Cells |-> IF c \in walls THEN ICE ELSE FLOOR]
    /\ jobs \in {<<"j1">>, <<"j2", "j1">>}
    /\ \E flags \in {<<{}, {}>>, <<{"j2"}, {}>>, <<{}, {"j2"}>>} :
          /\ done = [j \in JobIds |-> j \in flags[1]]
          /\ team = [EmptyLedger EXCEPT !.mine = flags[2]]
    /\ \E at \in Cells, c1 \in Cells :
          /\ ~tile_is_solid(get_tile_at(data, at))
          /\ search = [NoSearch EXCEPT !.at = at, !.loc["j1"] = c1]
    /\ clock = NoClock
    /\ location = [e \in Entities |->
                     IF e = "f3" THEN NoLoc
                     ELSE IF e = "f1" THEN <<0, 0>> ELSE IF e = "f2" THEN <<0, 1>> ELSE <<0, 2>>]
    /\ entity_matrix = [c \in Cells |->
                          IF \E e \in Entities : location[e] = c
                          THEN CHOOSE e \in Entities : location[e] = c
                          ELSE NoEntity]
    /\ entity_list = {<<e, location[e]>> : e \in {x \in Entities : location[x] # NoLoc}}
    /\ pos = [p \in Penguins |-> <<0, 0>>]
    /\ held = [p \in Penguins |-> NoEntity]
    /\ task = [p \in Penguins |-> NoTask]
    /\ stockpiles = InitStockpiles
    /\ crashed = "none"
    /\ turn = 0
    /\ made = [p \in Penguins |-> {}]
    /\ max_fires = 0
    /\ enacted_consumed = FALSE
    /\ history = [p \in Penguins |-> <<>>]
    /\ outcome = [p \in Penguins |-> "idle"]
    /\ plan = [p \in Penguins |-> [kind |-> "none", args |-> NoArgs]]
    /\ tick_eligible = [p \in Penguins |-> <<>>]
    /\ last_op = [k \in LedgerKeys |-> "none"]
    /\ last_call = NoCall
    /\ tile_changes = 0
    /\ searched_again = FALSE

PlacedNext ==
    \/ SearchStart /\ SearchWorldUnchanged
    \/ \E in_timeslice \in BOOLEAN : SearchRun(in_timeslice) /\ SearchWorldUnchanged

PlacedSpec == PlacedInit /\ [][PlacedNext]_vars

\* the jobs of the list that are neither reserved nor done
OpenJobs == {j \in Range(jobs) : ~World.reserved[j] /\ ~done[j]}

\* the open jobs on a cell that can be reached from the origin over floor
\* cells; the cell itself may be solid, and may be the origin
ReachableJobs ==
    {j \in OpenJobs : search.loc[j] \in partition(data, search.origin)}

\* C21: a search run to its terminal state returns a job whenever an open job
\* lies on a cell reachable from the origin, the origin included.
C21_SearchCompleteness ==
    (Terminal /\ ReachableJobs # {}) => search.result.job # NoJob

\* run() is called again and again while the session is busy
PlacedFairSpec ==
    PlacedSpec /\ WF_vars(SearchRun(TRUE) /\ SearchWorldUnchanged)

\* this step is a run() call that was let through by the timeslice test
Ran == search'.runs = search.runs + 1

\* C22: a started search is terminal after finitely many run() calls, at most
\* one per cell and one more; a call ends the session exactly when it returns
\* a job or visits no new cell, so busy stays true on every earlier call; and
\* when no open job lies on a reachable cell the calls return no job.
C22_SearchTermination ==
    /\ search.started ~> Terminal
    /\ [](search.runs <= Unbounded)
    /\ [][Ran =>
            /\ ~search'.js.busy <=>
                  \/ search'.result.job # NoJob
                  \/ search'.js.visited = search.js.visited
            /\ ReachableJobs = {} => search'.result = NoResult]_vars

\* a search with no open job in reach has ended with no match after three
\* or more rounds
C22_Witness ==
    /\ Terminal
    /\ ReachableJobs = {}
    /\ search.result = NoResult
    /\ search.runs >= 3

\* the least number of steps from the origin to cell c over floor cells
ShortestSteps(c) == Dist(data, c)[search.origin]

\* C23: the path returned with the found job has the least number of steps
\* any path from the origin to the job's cell over floor cells has.
C23_ShortestPath ==
    (Terminal /\ search.result.job # NoJob) =>
       Len(search.result.path) = ShortestSteps(search.loc[search.result.job])

\* the cells a path of steps passes when walked from cell c, c excluded
RECURSIVE PathCells(_, _)
PathCells(c, path) ==
    IF path = <<>> THEN <<>>
    ELSE <<Plus(c, Head(path))>> \o PathCells(Plus(c, Head(path)), Tail(path))

\* C24: when run() has returned a job, the job is in the list, not reserved
\* and not done, busy is false, and the path consists of unit steps in the
\* eight directions that lead from the origin over floor cells of the grid to
\* the job's cell, which it reaches with its last step.
C24_ResultValidity ==
    search.result.job # NoJob =>
       LET j == search.result.job
           path == search.result.path
           cells == PathCells(search.origin, path)
       IN /\ j \in OpenJobs
          /\ ~search.js.busy
          /\ path # <<>>
          /\ \A i \in 1 .. Len(path) : path[i] \in Range(SearchOffsets)
          /\ \A i \in 1 .. Len(path) - 1 :
                cells[i] \in Cells /\ ~tile_is_solid(get_tile_at(data, cells[i]))
          /\ cells[Len(path)] = search.loc[j]

\* a job on a solid cell has been found two or more steps away, while a
\* reserved job is first in the list
C24_Witness ==
    /\ search.result.job = "j1"
    /\ Len(search.result.path) >= 2
    /\ tile_is_solid(get_tile_at(data, search.loc["j1"]))
    /\ jobs = <<"j2", "j1">>
    /\ World.reserved["j2"]

\* ------------------------------------------- the job search in timeslices
\* how many ticks the stopwatch counts
MaxStopwatch == 5

\* walls in the middle, job j1 on the ice of the right column, the owner on
\* any floor cell, the search in any timeslice
SlicedInit ==
    /\ \E walls \in {{}, {<<1, 0>>, <<1, 1>>}} :
          data = [c \in Cells |-> IF c \in walls \cup IceCells THEN ICE ELSE FLOOR]
    /\ jobs = <<"j1">>
    /\ done = [j \in JobIds |-> FALSE]
    /\ team = EmptyLedger
    /\ \E at \in Cells, timeslice \in 0 .. NUM_OF_TIMESLICES - 1 :
          /\ ~tile_is_solid(get_tile_at(data, at))
          /\ search = [NoSearch EXCEPT !.at = at, !.timeslice = timeslice]
    /\ clock = NoClock
    /\ location = [e \in Entities |->
                     IF e = "f3" THEN NoLoc
                     ELSE IF e = "f1" THEN <<0, 0>> ELSE IF e = "f2" THEN <<0, 1>> ELSE <<0, 2>>]
    /\ entity_matrix = [c \in Cells |->
                          IF \E e \in Entities : location[e] = c
                          THEN CHOOSE e \in Entities : location[e] = c
                          ELSE NoEntity]
    /\ entity_list = {<<e, location[e]>> : e \in {x \in Entities : location[x] # NoLoc}}
    /\ pos = [p \in Penguins |-> <<0, 0>>]
    /\ held = [p \in Penguins |-> NoEntity]
    /\ task = [p \in Penguins |-> NoTask]
    /\ stockpiles = InitStockpiles
    /\ crashed = "none"
    /\ turn = 0
    /\ made = [p \in Penguins |-> {}]
    /\ max_fires = 0
    /\ enacted_consumed = FALSE
    /\ history = [p \in Penguins |-> <<>>]
    /\ outcome = [p \in Penguins |-> "idle"]
    /\ plan = [p \in Penguins |-> [kind |-> "none", args |-> NoArgs]]
    /\ tick_eligible = [p \in Penguins |-> <<>>]
    /\ last_op = [k \in LedgerKeys |-> "none"]
    /\ last_call = NoCall
    /\ tile_changes = 0
    /\ searched_again = FALSE

\* one tick of the stopwatch, in which the owner calls run(limit = 1) without
\* ignore_timeslice
SlicedTick ==
    /\ search.started /\ search.js.busy
    /\ search.stopwatch < MaxStopwatch
    /\ \E now \in {search.stopwatch + 1} :
       \E r \in {run(World, search.js, 1, InTimeslice(now, search.timeslice))} :
          search' = [search EXCEPT !.js = r.js, !.result = r.result,
                                   !.stopwatch = now,
                                   !.runs = IF InTimeslice(now, search.timeslice)
                                            THEN @ + 1 ELSE @]

SlicedNext ==
    \/ SearchStart /\ SearchWorldUnchanged
    \/ SlicedTick /\ SearchWorldUnchanged
    \/ \E off \in {SearchOffsets[i] : i \in 1 .. 8} : SearchMove(off) /\ SearchWorldUnchanged

SlicedSpec == SlicedInit /\ [][SlicedNext]_vars

\* the step is a tick of the stopwatch, with its call of run()
Ticked == search'.stopwatch = search.stopwatch + 1

\* the step is start()
SearchStarted == ~search.started /\ search'.started

\* the step is a move of the owner, with its call of notify()
Notified == search'.moves = search.moves + 1

\* C25: a call of run() on a tick that is not in the search's timeslice returns
\* no result and leaves the visited cells, the stale cells, the directions, the
\* displacement log and busy as they were; the state of the search changes only
\* in start(), in notify() or in a call of run() in its own timeslice.
C25_TimesliceGating ==
    [][/\ (Ticked /\ ~InTimeslice(search'.stopwatch, search.timeslice)) =>
             /\ search'.js = search.js
             /\ search'.result = NoResult
       /\ search'.js # search.js =>
             \/ SearchStarted
             \/ Notified
             \/ Ticked /\ InTimeslice(search'.stopwatch, search.timeslice)]_vars

\* a search that has visited cells has sat out a tick outside its timeslice
\* and worked on a later one
C25_Witness ==
    /\ search.started
    /\ search.runs >= 1
    /\ search.stopwatch >= search.runs + 2
    /\ search.js.visited # {search.origin}
    /\ search.timeslice # 0

\* ------------------------------------------------- a Go that is blocked
\* penguin p is about to enact a Go whose target has left its partition
GoBlocked(p) ==
    /\ turn = p
    /\ crashed = "none"
    /\ task[p].kind = "Go"
    /\ ~in_partition(State(NoEntity, NoLoc), p, task[p].target)

\* the states the blocked continuation of p's task leaves, over the choices
\* of the stage's searches
AfterBlocked(p) ==
    {Invoke(State(e, c), p, task[p], "blocked") : e \in Entities, c \in Cells}

\* C26: an enact of a Go whose target is no longer in the penguin's partition
\* does what the blocked continuation does and nothing else; the penguin stays
\* where it is; on the way to a Mine job the reservation of the job is
\* released, and the penguin is left without a task or with the task of a
\* newly selected job, not with the Go it gave up.
C26_GoBlocked ==
    [][\A p \in Penguins :
         GoBlocked(p) =>
            /\ \E s1 \in AfterBlocked(p) :
                  /\ task' = s1.task /\ team' = s1.team /\ pos' = s1.pos
                  /\ held' = s1.held /\ crashed' = s1.crashed
            /\ pos'[p] = pos[p]
            /\ task[p].blocked_proc = "forget_job" =>
                  /\ ~ledger_is_reserved(team', "mine", task[p].args.job)
                  /\ crashed' = "none"
                  /\ \/ task'[p] = NoTask
                     \/ task'[p].args.job # task[p].args.job]_vars

\* a penguin has given up the way to a Mine job after a tile change and has
\* found nothing else to do; the job is free again
C26_Witness ==
    /\ tile_changes = 1
    /\ \E p \in Penguins :
          /\ outcome[p] = "forgot"
          /\ task[p] = NoTask
    /\ jobs = <<"j2">>
    /\ ~done["j2"]
    /\ ~ledger_is_reserved(team, "mine", "j2")

\* ------------------------------------------------- a way with a detour
\* a wall in the middle of the map and ice on job j1's cell: two ways lead
\* round the wall, and a tile of the bottom row may turn solid
DetourInit ==
    /\ data = [c \in Cells |->
                 IF c \in {<<1, 1>>, JobLoc("j1")} THEN ICE ELSE FLOOR]
    /\ location \in {l \in [Entities -> Cells \cup {NoLoc}] :
                        /\ l["f1"] = <<2, 2>>
                        /\ l["f2"] = <<1, 2>>
                        /\ l["r1"] \in {<<0, 2>>, <<0, 1>>}
                        /\ l["f3"] = NoLoc}
    /\ pos \in [Penguins -> {<<0, 0>>, <<0, 1>>, <<0, 2>>}]
    /\ jobs \in {<<>>, <<"j1">>}
    /\ entity_matrix = [c \in Cells |->
                          IF \E e \in Entities : location[e] = c
                          THEN CHOOSE e \in Entities : location[e] = c
                          ELSE NoEntity]
    /\ entity_list = {<<e, location[e]>> : e \in {x \in Entities : location[x] # NoLoc}}
    /\ held = [p \in Penguins |-> NoEntity]
    /\ task = [p \in Penguins |-> NoTask]
    /\ done = [j \in JobIds |-> FALSE]
    /\ stockpiles = InitStockpiles
    /\ team = EmptyLedger
    /\ crashed = "none"
    /\ turn = 0
    /\ made = [p \in Penguins |-> {}]
    /\ max_fires = 0
    /\ enacted_consumed = FALSE
    /\ history = [p \in Penguins |-> <<>>]
    /\ outcome = [p \in Penguins |-> "idle"]
    /\ plan = [p \in Penguins |-> [kind |-> "none", args |-> NoArgs]]
    /\ tick_eligible = [p \in Penguins |-> <<>>]
    /\ last_op = [k \in LedgerKeys |-> "none"]
    /\ last_call = NoCall
    /\ tile_changes = 0
    /\ searched_again = FALSE
    /\ search = NoSearch
    /\ clock = NoClock

DetourSpec == DetourInit /\ [][ChangingNext]_vars

\* penguin p is about to enact a Go that has a path and a reachable target
GoEnacts(p) ==
    /\ turn = p
    /\ crashed = "none"
    /\ task[p].kind = "Go"
    /\ task[p].has_path
    /\ in_partition(State(NoEntity, NoLoc), p, task[p].target)

\* the cached next step of p's Go has become solid
NextStepSolid(p) ==
    /\ Len(task[p].path) > 0
    /\ ~(task[p].target_is_solid /\ Len(task[p].path) = 1)
    /\ tile_is_solid(get_tile_at(data, task[p].path[1]))

\* the states the finished continuation of p's task leaves
AfterFinished(p) ==
    {Invoke(State(e, c), p, task[p], "finished") : e \in Entities, c \in Cells}

\* C27 (movement): a tick moves a penguin with a Go by at most one step in
\* the eight directions, and only onto a tile that is not solid; if the
\* cached next step has become solid the penguin stays and its Go gets the
\* path astar finds from where it stands; a Go whose target was solid calls
\* its finished continuation, without moving, when one step is left, and not
\* while more are left.
C27_GoStep ==
    [][\A p \in Penguins :
         /\ pos'[p] \in Neighbours(pos[p]) \cup {pos[p]}
         /\ pos'[p] # pos[p] => ~tile_is_solid(get_tile_at(data, pos'[p]))
         /\ GoEnacts(p) =>
            /\ NextStepSolid(p) =>
                  /\ pos'[p] = pos[p]
                  /\ task'[p] = [task[p] EXCEPT
                                   !.path = astar(data, pos[p], task[p].target)]
            /\ (task[p].target_is_solid /\ Len(task[p].path) = 1) =>
                  /\ pos'[p] = pos[p]
                  /\ \E s1 \in AfterFinished(p) :
                        /\ task' = s1.task /\ team' = s1.team /\ held' = s1.held
            /\ (task[p].target_is_solid /\ Len(task[p].path) > 1
                  /\ ~NextStepSolid(p)) =>
                  /\ pos'[p] = task[p].path[1]
                  /\ pos'[p] # task[p].target
                  /\ task'[p] = [task[p] EXCEPT !.path = Tail(@)]]_vars

\* C27 (standing): no penguin stands on a solid tile.
C27_NeverOnSolid ==
    \A p \in Penguins : ~tile_is_solid(get_tile_at(data, pos[p]))

C27_GoMovement == []C27_NeverOnSolid /\ C27_GoStep

\* a penguin whose next step turned solid has got a new, longer way to its
\* target from where it stands
C27_Witness ==
    /\ tile_changes = 1
    /\ \E p \in Penguins :
          /\ task[p].kind = "Go"
          /\ task[p].has_path
          /\ task[p].path # <<>>
          /\ task[p].path = astar(data, pos[p], task[p].target)
          /\ \E c \in Cells :
                /\ tile_is_solid(get_tile_at(data, c))
                /\ c \in Neighbours(pos[p])
                /\ c[2] = 2
                /\ c # task[p].target
                /\ Len(astar([data EXCEPT ![c] = FLOOR], pos[p], task[p].target))
                      < Len(task[p].path)

\* ------------------------------------------------- the crowded map
\* Two dead ends, left and right, meet on the stockpile slot in the bottom
\* row; a rock lies on the slot, fish on the way into either dead end and at
\* the end of one of them.  Any floor tile may turn solid between two ticks.
CrowdedWalls == {<<1, 0>>, <<1, 1>>, <<0, 2>>, <<2, 2>>}

CrowdedInit ==
    /\ data = [c \in Cells |-> IF c \in CrowdedWalls THEN ICE ELSE FLOOR]
    /\ location \in {l \in [Entities -> Cells] :
                        /\ l["r1"] = <<1, 2>>
                        /\ l["f1"] = <<0, 1>>
                        /\ l["f2"] = <<2, 1>>
                        /\ l["f3"] \in {<<0, 0>>, <<2, 0>>}}
    /\ pos \in {q \in [Penguins -> {<<1, 2>>, <<2, 0>>}] : q[2] = <<1, 2>>}
    /\ jobs = <<>>
    /\ entity_matrix = [c \in Cells |->
                          IF \E e \in Entities : location[e] = c
                          THEN CHOOSE e \in Entities : location[e] = c
                          ELSE NoEntity]
    /\ entity_list = {<<e, location[e]>> : e \in Entities}
    /\ held = [p \in Penguins |-> NoEntity]
    /\ task = [p \in Penguins |-> NoTask]
    /\ done = [j \in JobIds |-> FALSE]
    /\ stockpiles = InitStockpiles
    /\ team = EmptyLedger
    /\ crashed = "none"
    /\ turn = 0
    /\ made = [p \in Penguins |-> {}]
    /\ max_fires = 0
    /\ enacted_consumed = FALSE
    /\ history = [p \in Penguins |-> <<>>]
    /\ outcome = [p \in Penguins |-> "idle"]
    /\ plan = [p \in Penguins |-> [kind |-> "none", args |-> NoArgs]]
    /\ tick_eligible = [p \in Penguins |-> <<>>]
    /\ last_op = [k \in LedgerKeys |-> "none"]
    /\ last_call = NoCall
    /\ tile_changes = 0
    /\ searched_again = FALSE
    /\ search = NoSearch
    /\ clock = NoClock

CrowdedNext ==
    \/ DeleteFinishedJobs
    \/ \E p \in Penguins : Update(p)
    \/ \E c \in Cells : c[2] = 1 /\ SolidChange(c)

CrowdedSpec == CrowdedInit /\ [][CrowdedNext]_vars

\* the walkable cells without an entity that can be reached from cell `from`
\* on tiles d with occupancy m
EmptySpots(d, m, from) ==
    {c \in Cells : /\ ~tile_is_solid(d[c])
                   /\ Dist(d, from)[c] < Far
                   /\ m[c] = NoEntity}

\* those of them nearest to `from`
NearestSpots(d, m, from) ==
    {c \in EmptySpots(d, m, from) :
        \A x \in EmptySpots(d, m, from) : Dist(d, from)[c] <= Dist(d, from)[x]}

\* the step is an update of penguin p that ...
\* ... constructs a TaskGoToAnyMatchingSpot
SpotCreated(p) ==
    /\ turn = p /\ crashed = "none"
    /\ task[p].kind # "GoToAnyMatchingSpot"
    /\ \/ task'[p].kind = "GoToAnyMatchingSpot"
       \/ crashed' = "error: no accessible dump location"

\* ... enacts a TaskGoToAnyMatchingSpot whose target has left p's partition
SpotSearchedAgain(p) ==
    /\ turn = p /\ crashed = "none"
    /\ task[p].kind = "GoToAnyMatchingSpot"
    /\ ~task[p].path_is_none
    /\ ~in_partition(State(NoEntity, NoLoc), p, task[p].target)

\* ... in which the task calls its impossible continuation
SpotImpossible(p) ==
    /\ turn = p /\ crashed = "none"
    /\ crashed' = "error: no accessible dump location"

\* ... in which the task calls its finished continuation, from its
\* constructor or from enact()
SpotFinished(p) ==
    /\ turn = p /\ crashed = "none"
    /\ \/ /\ task[p].kind # "GoToAnyMatchingSpot"
          /\ task'[p].kind = "GoToAnyMatchingSpot"
          /\ task'[p].fires > 0
       \/ /\ task[p].kind = "GoToAnyMatchingSpot"
          /\ task'[p].kind = "Drop"

\* C28: a TaskGoToAnyMatchingSpot calls its impossible continuation exactly
\* when its search, at construction or when repeated, finds no reachable
\* empty cell, and then it does not call finished; it calls finished only
\* with the penguin on the cell its last search chose; when its
\* target has left the penguin's partition and an empty cell can still be
\* reached, it does not fail: it finishes at once if the penguin stands on a
\* nearest empty cell and else takes the first step of the way to one.
C28_SpotOutcomes ==
    [][\A p \in Penguins :
         /\ SpotImpossible(p) =>
               /\ EmptySpots(data', entity_matrix', pos'[p]) = {}
               /\ ~SpotFinished(p)
         /\ ((SpotCreated(p) \/ SpotSearchedAgain(p))
               /\ EmptySpots(data', entity_matrix', pos[p]) = {}) =>
               SpotImpossible(p)
         /\ SpotFinished(p) =>
               /\ task'[p].kind = "GoToAnyMatchingSpot" =>
                     /\ task'[p].target = pos'[p]
                     /\ pos'[p] \in EmptySpots(data', entity_matrix', pos'[p])
               /\ (task[p].kind = "GoToAnyMatchingSpot" /\ ~SpotSearchedAgain(p)) =>
                     pos'[p] = task[p].target
               /\ SpotSearchedAgain(p) =>
                     pos'[p] \in NearestSpots(data, entity_matrix, pos[p])
         /\ (SpotSearchedAgain(p) /\ EmptySpots(data, entity_matrix, pos[p]) # {}) =>
               /\ crashed' = "none"
               /\ \/ SpotFinished(p)
                  \/ /\ task'[p].kind = "GoToAnyMatchingSpot"
                     /\ task'[p].target \in NearestSpots(data, entity_matrix, pos[p])
                     /\ task'[p].target # task[p].target
                     /\ pos'[p] = astar(data, pos[p], task'[p].target)[1]
                     /\ task'[p].path = Tail(astar(data, pos[p], task'[p].target))]_vars

\* after a tile change a penguin is on its way to the empty cell its second
\* search found
C28_Witness ==
    /\ searched_again
    /\ crashed = "none"
    /\ tile_changes = 1
    /\ \E p \in Penguins :
          /\ task[p].kind = "GoToAnyMatchingSpot"
          /\ task[p].fires = 0
          /\ held[p] # NoEntity
          /\ task[p].target \in EmptySpots(data, entity_matrix, pos[p])
          /\ pos[p] # task[p].target
          /\ entity_matrix[pos[p]] # NoEntity

\* ------------------------------------------------- Trade
\* penguin p is about to enact a Trade
Trades(p) == turn = p /\ crashed = "none" /\ task[p].kind = "Trade"

\* C29 (swap): an enact of Trade by a penguin that holds H and stands on the
\* cell of G leaves G in the penguin's hand and without a location and H on
\* the penguin's cell, changes no other entity, cell or position, and calls
\* the finished continuation.
C29_Swap ==
    [][\A p \in Penguins :
         (Trades(p) /\ held[p] # NoEntity /\ entity_matrix[pos[p]] # NoEntity) =>
            LET H == held[p]
                G == entity_matrix[pos[p]]
            IN /\ held' = [held EXCEPT ![p] = G]
               /\ location' = [location EXCEPT ![G] = NoLoc, ![H] = pos[p]]
               /\ entity_matrix' = [entity_matrix EXCEPT ![pos[p]] = H]
               /\ entity_list' = (entity_list \ {<<G, pos[p]>>}) \cup {<<H, pos[p]>>}
               /\ pos' = pos
               /\ data' = data
               /\ \/ crashed' = "none" /\ task'[p].kind \in {"GoToAnyMatchingSpot", "Drop"}
                  \/ crashed' = "error: no accessible dump location"]_vars

\* C29 (precondition): a Trade is enacted only by a penguin that holds an
\* entity and stands on the cell of another.
C29_BothPresent ==
    \A p \in Penguins :
       Trades(p) => /\ held[p] # NoEntity
                    /\ entity_matrix[pos[p]] # NoEntity
                    /\ location[entity_matrix[pos[p]]] = pos[p]

Shuffled_in_order(list) ==
    {CHOOSE o \in [1 .. Cardinality(list) -> list] :
        \A i, j \in 1 .. Cardinality(list) : i # j => o[i] # o[j]}

\* random.shuffle(self.entity_list): every order of the entries
Shuffled(list) ==
    {o \in [1 .. Cardinality(list) -> list] :
        \A i, j \in 1 .. Cardinality(list) : i # j => o[i] # o[j]}

\* the for loop of find_entity over the shuffled list
first_accepted(order, condition) ==
    LET hits == {i \in 1 .. Len(order) : condition[order[i]]}
    IN IF hits = {} THEN <<>>
       ELSE order[CHOOSE i \in hits : \A j \in hits : i <= j]

\* the conditions a caller can pass to find_entity
Conditions == [entity_list -> BOOLEAN]

\* C30: for every condition, find_entity returns an accepted entry that is
\* on the grid at its cell when some entry is accepted and nothing exactly
\* when none is; every accepted entry is a possible result; the shuffle
\* keeps the entries of the list, and the grid and the locations are not
\* touched.
C30_FindEntity ==
    \A condition \in Conditions :
       LET accepted == {el \in entity_list : condition[el]}
           results == {first_accepted(o, condition) : o \in Shuffled(entity_list)}
       IN /\ \A o \in Shuffled(entity_list) : {o[i] : i \in DOMAIN o} = entity_list
          /\ results = {find_entity(State(e, c), condition) : e \in Shuffles, c \in Cells}
          /\ accepted = {} => results = {<<>>}
          /\ accepted # {} => results = accepted
          /\ \A r \in results \ {<<>>} :
                /\ condition[r]
                /\ r[2] \in Cells
                /\ entity_matrix[r[2]] = r[1]
                /\ location[r[1]] = r[2]

\* a penguin has just been sent to f2 by find_entity while f1 lay on the
\* ground as free and as reachable as f2
C30_Witness ==
    /\ turn = 2 /\ tile_changes = 0 /\ crashed = "none"
    /\ task[2] = NoTask /\ held = [p \in Penguins |-> NoEntity]
    /\ task[1].kind = "Go" /\ task[1].args.entity = "f2"
    /\ task[1].target = location["f2"]
    /\ location["f1"] \in partition(data, pos[1])
    /\ location["f2"] \in partition(data, pos[1])
    /\ <<"f1", location["f1"]>> \in entity_list
    /\ \A c \in stock_cells(stockpiles[1]) : location["f1"] # c /\ location["f2"] # c
    /\ ~ledger_is_reserved(team, "entity", "f1")

\* ------------------------------------------------- ownership
\* every (category, key) the program can reserve
ProgramKeys ==
    ({"mine"} \X JobIds) \cup ({"location"} \X Cells) \cup ({"entity"} \X Entities)

\* the keys that the step of penguin p takes out of the ledger
Released(p) ==
    {k \in ProgramKeys : turn = p /\ ledger_is_reserved(team, k[1], k[2])
                           /\ ~ledger_is_reserved(team', k[1], k[2])}

\* the keys the arguments of the plan of penguin p name
NamedByPlan(p) ==
    {<<"mine", plan[p].args.job>>, <<"location", plan[p].args.chosen_slot>>,
     <<"entity", plan[p].args.entity>>}

ContractViolations ==
    {"reserve: key is already reserved", "relinquish: key is not reserved"}

\* C32: no call of reserve finds its key reserved and no call of relinquish
\* finds its key absent, and the ledger holds exactly the keys some penguin
\* reserved and has not released.
C32_NoContractViolation ==
    /\ crashed \notin ContractViolations
    /\ \A k \in ProgramKeys :
          ledger_is_reserved(team, k[1], k[2]) <=> \E p \in Penguins : k \in made[p]

\* one penguin has ended a haul, with its two reserve and two relinquish
\* calls, while the other is in the middle of a plan and holds keys
C32_Witness ==
    \E p \in Penguins, q \in Penguins :
       /\ p # q /\ crashed = "none"
       /\ outcome[p] = "hauled"
       /\ plan[q].kind = "haul" /\ task[q] # NoTask
       /\ <<"location", plan[q].args.chosen_slot>> \in made[q]

\* ------------------------------------------------- Mine range
\* the Chebyshev distance of two cells is at most 1
Near(a, b) == a[1] - b[1] \in -1 .. 1 /\ a[2] - b[2] \in -1 .. 1

\* C33: a penguin whose task is a Mine stands within Chebyshev distance 1 of
\* the task's target, which is the cell of the job it reserved, from the
\* creation of the task to its last enact; the range assertion never fails.
C33_MineInRange ==
    /\ crashed # "TaskMine: not in range of mine job"
    /\ \A p \in Penguins :
          task[p].kind = "Mine" =>
             /\ Near(pos[p], task[p].target)
             /\ task[p].target = JobLoc(task[p].args.job)

\* a penguin sent to its job by a Go is mining it from the next cell, with
\* work already done
C33_Witness ==
    \E p \in Penguins :
       /\ crashed = "none"
       /\ task[p].kind = "Mine" /\ task[p].work_left < WORK
       /\ pos[p] # task[p].target
       /\ history[p] = <<"Go", "Mine">>
       /\ tile_is_solid(data[task[p].target])

\* ------------------------------------------------- idle hands
\* the plan of penguin p ends in this step: Penguin.task becomes None
PlanEnds(p) == turn = p /\ task[p] # NoTask /\ task'[p] = NoTask /\ crashed' = "none"

\* C34 (state): a penguin without a task holds nothing.
C34_IdleHoldsNothing ==
    \A p \in Penguins : task[p] = NoTask => held[p] = NoEntity

\* C34 (step): when the plan of a penguin that carried an entity ends, the
\* step has put that entity on the grid, on the penguin's cell, and every
\* entity the plan picked up or traded for lies on the grid (or is in the
\* hands of another penguin).
C34_PutBack ==
    [][\A p \in Penguins :
          (PlanEnds(p) /\ held[p] # NoEntity) =>
             /\ held'[p] = NoEntity
             /\ location'[held[p]] = pos[p]
             /\ entity_matrix'[pos[p]] = held[p]
             /\ <<held[p], pos[p]>> \in entity_list'
             /\ plan[p].kind = "haul"
             /\ \A e \in Entities :
                   \/ location'[e] # NoLoc
                   \/ \E q \in Penguins \ {p} : held'[q] = e
                   \/ location[e] = NoLoc /\ \A q \in Penguins : held[q] # e]_vars

\* C34: idle penguins hold nothing, and a haul ends only after what it
\* carried has been put back on the grid.
C34_IdleAgentsHoldNothing == []C34_IdleHoldsNothing /\ C34_PutBack

\* a penguin has dumped the occupier it traded for outside the stockpile and
\* is idle with empty hands
C34_Witness ==
    \E p \in Penguins :
       /\ crashed = "none" /\ task[p] = NoTask /\ held[p] = NoEntity
       /\ outcome[p] = "dumped"
       /\ location[plan[p].args.entity] = plan[p].args.chosen_slot
       /\ \E e \in Entities \ {plan[p].args.entity} :
             location[e] = pos[p] /\ location[e] \notin stock_cells(stockpiles[plan[p].args.stock])

\* ------------------------------------------------- done implies dug
\* job j is finished in this step: MineJob.done becomes True
Finishes(j) == ~done[j] /\ done'[j]

\* C35 (state): the target tile of a done Mine job is not solid.
C35_DoneIsDug ==
    \A j \in JobIds : done[j] => ~tile_is_solid(data[JobLoc(j)])

\* C35 (step): a job is finished only by the enact of a Mine task on the
\* job's cell, run by the penguin that reserved the job and still holds it,
\* and that enact has set the tile to the passable id.
C35_FinishedByOwner ==
    [][\A j \in JobIds :
          Finishes(j) =>
             \E p \in Penguins :
                /\ turn = p
                /\ task[p].kind = "Mine" /\ task[p].work_left = 1
                /\ task[p].args.job = j /\ task[p].target = JobLoc(j)
                /\ plan[p].kind = "mine" /\ plan[p].args.job = j
                /\ <<"mine", j>> \in made[p]
                /\ \A q \in Penguins \ {p} : <<"mine", j>> \notin made[q]
                /\ data'[JobLoc(j)] = FLOOR]_vars

\* C35: done implies dug, by the penguin that reserved the job.
C35_DoneImpliesDug == []C35_DoneIsDug /\ C35_FinishedByOwner

\* a job on ice is done and its tile is floor, while the other job is still
\* being mined by the other penguin
C35_Witness ==
    \E j \in JobIds, p \in Penguins :
       /\ crashed = "none" /\ done[j] /\ data[JobLoc(j)] = FLOOR
       /\ task[p].kind = "Mine" /\ task[p].args.job # j
       /\ tile_is_solid(data[task[p].target])

\* ------------------------------------------------- mining progress
\* a world of Mine jobs only: the maps of MineInit without the stockpile
QuarryInit ==
    /\ \E walls \in {IceCells, CorridorWalls} :
          data = [c \in Cells |-> IF c \in walls THEN ICE ELSE FLOOR]
    /\ location = [e \in Entities |->
                     IF e = "f3" THEN NoLoc
                     ELSE IF e = "f1" THEN <<2, 2>>
                     ELSE IF e = "f2" THEN <<1, 2>> ELSE <<0, 1>>]
    /\ entity_matrix = [c \in Cells |->
                          IF \E e \in Entities : location[e] = c
                          THEN CHOOSE e \in Entities : location[e] = c
                          ELSE NoEntity]
    /\ entity_list = {<<e, location[e]>> : e \in {x \in Entities : location[x] # NoLoc}}
    /\ pos \in [Penguins -> {<<0, 0>>, <<0, 2>>, <<1, 2>>}]
    /\ held = [p \in Penguins |-> NoEntity]
    /\ task = [p \in Penguins |-> NoTask]
    /\ jobs \in {<<"j1">>, <<"j1", "j2">>, <<"j2", "j1">>}
    /\ done = [j \in JobIds |-> FALSE]
    /\ stockpiles = <<>>
    /\ team = EmptyLedger
    /\ crashed = "none"
    /\ turn = 0
    /\ made = [p \in Penguins |-> {}]
    /\ max_fires = 0
    /\ enacted_consumed = FALSE
    /\ history = [p \in Penguins |-> <<>>]
    /\ outcome = [p \in Penguins |-> "idle"]
    /\ plan = [p \in Penguins |-> [kind |-> "none", args |-> NoArgs]]
    /\ tick_eligible = [p \in Penguins |-> <<>>]
    /\ last_op = [k \in LedgerKeys |-> "none"]
    /\ last_call = NoCall
    /\ tile_changes = 0
    /\ searched_again = FALSE
    /\ search = NoSearch
    /\ clock = NoClock

QuarrySpec == QuarryInit /\ [][Next]_vars

\* the main loop passes on to the next update() as long as no exception has
\* ended the program; every step of Next is such a step and no other step
\* of QuarrySpec changes turn
Ticking ==
    /\ crashed = "none"
    /\ turn' = (IF turn = LastPenguin THEN 0 ELSE turn + 1)

\* ticks keep occurring
QuarryFairSpec == QuarrySpec /\ WF_turn(Ticking)

\* job j is in the job list and some penguin can reach its tile
Minable(j) ==
    /\ j \in Range(jobs)
    /\ \E p \in Penguins : JobLoc(j) \in partition(data, pos[p])

\* every penguin is idle and no job is eligible for any of them
AllIdle ==
    \A p \in Penguins : task[p] = NoTask /\ EligibleJobs(p) = <<>>

\* C36: with Mine jobs only and ticks that keep occurring, every job whose
\* tile is in the partition of some penguin is eventually done, and from
\* some tick on every penguin is idle and has no eligible job.
C36_MiningProgress ==
    /\ \A j \in JobIds : Minable(j) ~> done[j]
    /\ <>[]AllIdle

\* both jobs are done, the second one after the first had opened the way to
\* it, and every penguin is idle
C36_Witness ==
    /\ crashed = "none" /\ AllIdle
    /\ \A j \in JobIds : done[j] /\ data[JobLoc(j)] = FLOOR
    /\ data[<<1, 0>>] = ICE

====
